---- MODULE Spec2Model ----
(***************************************************************************)
(* The meeting-analysis pipeline of the analyst agent (AnalystAgent):      *)
(* transcript ingestion (ProcessUtterance), the analysis cycle             *)
(* (updateAnalysis and its five tasks), the reader (GetAnalysis) and the   *)
(* persistence of the record (saveAnalysis), as a state machine.           *)
(*                                                                         *)
(* A Go string is a sequence of one-character strings; a Go pointer or an  *)
(* optional value is a sequence of length 0 (nil) or 1.  Time is counted   *)
(* in minutes since the construction of the agent.                         *)
(***************************************************************************)
EXTENDS Integers, Sequences, FiniteSets, TLC

VARIABLES
    now,                      \* the wall clock, time.Now()
    crashed,                  \* a goroutine panicked: the process is gone
    data,                     \* a.data, the record
    file,                     \* the file at a.filePath: Nil or Some(record)
    saveFailed,               \* some os.WriteFile returned an error
    dataMutex,                \* a.dataMutex: [writer: Nil or Some(p), readers]
    analysisMutex,            \* a.analysisMutex: Nil or Some(goroutine)
    lastAnalysis,             \* a.lastAnalysis
    currentAnalysisSnapshot,  \* a.currentAnalysisSnapshot: Nil or Some(entries)
    config,                   \* a.config and a.llmProvider, fixed at construction
    ipc,                      \* position of each ProcessUtterance caller
    expected,                 \* what the contract expects of each caller's last batch
    ibuf,                     \* saveAnalysis' marshalled bytes in ProcessUtterance
    ireturn,                  \* how each caller's last call returned
    spawned,                  \* whether each caller's last call started a cycle
    cpc,                      \* position of each updateAnalysis goroutine
    transcriptSnapshot,       \* updateAnalysis' local snapshot, per goroutine
    cbuf,                     \* saveAnalysis' marshalled bytes in updateAnalysis
    ran,                      \* per goroutine: the tasks run so far, in order, each with
                              \* the transcript it read, its error and its LLM calls
    rpc,                      \* position of each GetAnalysis caller
    lockOrder                 \* the callers that appended, in the order they took the lock

vars == << now, crashed, data, file, saveFailed, dataMutex, analysisMutex,
           lastAnalysis, currentAnalysisSnapshot, config, ipc, expected, ibuf,
           ireturn, spawned, cpc, transcriptSnapshot, cbuf, ran, rpc,
           lockOrder >>

(***************************************************************************)
(* Bounds of the model.                                                    *)
(***************************************************************************)
MaxTranscript == 2
MaxTime == 1
MaxFragments == 2
MaxSupports == 2

(***************************************************************************)
(* Generic helpers.                                                        *)
(***************************************************************************)
Nil == << >>
Some(x) == << x >>
IsNil(p) == p = << >>
Deref(p) == p[1]

Max(a, b) == IF a > b THEN a ELSE b
Last(s) == s[Len(s)]
IsPrefix(s, t) == Len(s) <= Len(t) /\ SubSeq(t, 1, Len(s)) = s

\* Sequences over S of length at most n.
SeqsUpTo(S, n) == UNION { [1..k -> S] : k \in 0..n }

\* A Go string is the sequence of its characters.
SPACE == " "
NEWLINE == "nl"
\* unicode.IsSpace, for the characters the model has.
IsSpace(c) == c \in { SPACE, NEWLINE }

(***************************************************************************)
(* strings.Fields: the number of maximal runs of non-space characters.     *)
(***************************************************************************)
IsWordStart(s, k) == ~IsSpace(s[k]) /\ (k = 1 \/ IsSpace(s[k - 1]))
NumFields(s) == Cardinality({ k \in 1..Len(s) : IsWordStart(s, k) })

(***************************************************************************)
(* Time.  The zero time.Time lies so far in the past that time.Since of it *)
(* exceeds every interval the code compares it with.                       *)
(***************************************************************************)
AnalysisInterval == 5
BatchSize == 20
ZeroTime == 0 - (AnalysisInterval + 1)
Since(t) == now - t

(***************************************************************************)
(* ProcessUtterance, lines 141-164: the loop over the segments.  A segment *)
(* is a map; a key that is missing or holds a value of another type fails  *)
(* the type assertion (ok = FALSE).                                        *)
(***************************************************************************)
DefaultSpeaker == "Participant"

Segment(spOk, sp, txOk, tx, tsOk, ts) ==
    [ speakerOk |-> spOk, speaker |-> sp, textOk |-> txOk, text |-> tx,
      timestampOk |-> tsOk, timestamp |-> ts ]

\* Variant of the loop body: the separator is written for every segment after
\* the first, whether or not it has text.
ExtractStep_SeparatorAlways(acc, i, seg) ==
    [ speaker   |-> IF seg.speakerOk /\ seg.speaker # "" THEN seg.speaker
                    ELSE acc.speaker,
      fullText  |-> (IF i > 0 THEN acc.fullText \o << SPACE >> ELSE acc.fullText)
                    \o (IF seg.textOk THEN seg.text ELSE << >>),
      timestamp |-> IF seg.timestampOk THEN seg.timestamp ELSE acc.timestamp ]

\* Variant of the loop body: the first speaker named is kept.
ExtractStep_FirstSpeaker(acc, i, seg) ==
    [ speaker   |-> IF seg.speakerOk /\ seg.speaker # "" /\ acc.speaker = DefaultSpeaker
                    THEN seg.speaker
                    ELSE acc.speaker,
      fullText  |-> IF seg.textOk /\ seg.text # << >>
                    THEN (IF i > 0 THEN acc.fullText \o << SPACE >> ELSE acc.fullText)
                         \o seg.text
                    ELSE acc.fullText,
      timestamp |-> IF seg.timestampOk THEN seg.timestamp ELSE acc.timestamp ]

\* One iteration of the loop: i is the 0-based index of segment seg.
ExtractStep(acc, i, seg) ==
    [ speaker   |-> IF seg.speakerOk /\ seg.speaker # "" THEN seg.speaker
                    ELSE acc.speaker,
      fullText  |-> IF seg.textOk /\ seg.text # << >>
                    THEN (IF i > 0 THEN acc.fullText \o << SPACE >> ELSE acc.fullText)
                         \o seg.text
                    ELSE acc.fullText,
      timestamp |-> IF seg.timestampOk THEN seg.timestamp ELSE acc.timestamp ]

RECURSIVE ExtractLoop(_, _, _)
\* The state of the loop after the first k segments of segs.
ExtractLoop(segs, k, t) ==
    IF k = 0
    THEN [ speaker |-> DefaultSpeaker, fullText |-> << >>, timestamp |-> t ]
    ELSE ExtractStep(ExtractLoop(segs, k - 1, t), k - 1, segs[k])

Extract(segs, t) == ExtractLoop(segs, Len(segs), t)

\* Variant of updateParticipants: the speaker is appended without the search.
updateParticipants_AlwaysAppend(participants, speaker) ==
    Append(participants, speaker)

\* updateParticipants, lines 195-202.
updateParticipants(participants, speaker) ==
    IF \E k \in 1..Len(participants) : participants[k] = speaker
    THEN participants
    ELSE Append(participants, speaker)

\* Variant of the append: the word count is the number of entries.
AppendEntry_CountsEntries(d, ex, t) ==
    [ d EXCEPT
        !.Transcript = Append(@, [ Timestamp |-> ex.timestamp, Speaker |-> ex.speaker,
                                   Text |-> ex.fullText, IsAgent |-> FALSE ]),
        !.Participants = updateParticipants(@, ex.speaker),
        !.LastUpdated = t,
        !.WordCount = @ + 1,
        !.DurationMinutes = t - d.StartTime ]

\* Variant of the append: the entry is put in front.
AppendEntry_Prepend(d, ex, t) ==
    [ d EXCEPT
        !.Transcript = << [ Timestamp |-> ex.timestamp, Speaker |-> ex.speaker,
                            Text |-> ex.fullText, IsAgent |-> FALSE ] >> \o @,
        !.Participants = updateParticipants(@, ex.speaker),
        !.LastUpdated = t,
        !.WordCount = @ + NumFields(ex.fullText),
        !.DurationMinutes = t - d.StartTime ]

\* Lines 166-181: the record after the entry is appended.
AppendEntry(d, ex, t) ==
    [ d EXCEPT
        !.Transcript = Append(@, [ Timestamp |-> ex.timestamp, Speaker |-> ex.speaker,
                                   Text |-> ex.fullText, IsAgent |-> FALSE ]),
        !.Participants = updateParticipants(@, ex.speaker),
        !.LastUpdated = t,
        !.WordCount = @ + NumFields(ex.fullText),
        !.DurationMinutes = t - d.StartTime ]

\* Variant of the trigger condition: the interval itself already triggers.
TriggerCondition_AtInterval(last, len) ==
    Since(last) >= AnalysisInterval \/ len % BatchSize = 0

\* Variant of the trigger condition: the zero time counts as no time passed.
TriggerCondition_ZeroIsNow(last, len) ==
    (last # ZeroTime /\ Since(last) > AnalysisInterval) \/ len % BatchSize = 0

\* Line 189: the trigger condition.
TriggerCondition(last, len) ==
    Since(last) > AnalysisInterval \/ len % BatchSize = 0

(***************************************************************************)
(* Strings: strings.Index, strings.TrimSpace, strings.ToLower and slices.  *)
(***************************************************************************)
\* s[a:b] with Go's 0-based bounds.
Slice(s, a, b) == SubSeq(s, a + 1, b)
HasAt(s, pat, k) == k + Len(pat) <= Len(s) /\ Slice(s, k, k + Len(pat)) = pat
\* strings.Index: the 0-based place of the first occurrence of pat, or -1.
Index(s, pat) ==
    LET hits == { k \in 0..Len(s) : HasAt(s, pat, k) } IN
    IF hits = {} THEN 0 - 1 ELSE CHOOSE k \in hits : \A j \in hits : k <= j
Contains(s, pat) == Index(s, pat) >= 0

TrimSpace(s) ==
    LET solid == { k \in 1..Len(s) : ~IsSpace(s[k]) } IN
    IF solid = {} THEN << >>
    ELSE SubSeq(s, CHOOSE k \in solid : \A j \in solid : k <= j,
                   CHOOSE k \in solid : \A j \in solid : j <= k)

LowerMap ==
    "A" :> "a" @@ "B" :> "b" @@ "C" :> "c" @@ "D" :> "d" @@ "E" :> "e" @@
    "F" :> "f" @@ "G" :> "g" @@ "H" :> "h" @@ "I" :> "i" @@ "J" :> "j" @@
    "K" :> "k" @@ "L" :> "l" @@ "M" :> "m" @@ "N" :> "n" @@ "O" :> "o" @@
    "P" :> "p" @@ "Q" :> "q" @@ "R" :> "r" @@ "S" :> "s" @@ "T" :> "t" @@
    "U" :> "u" @@ "V" :> "v" @@ "W" :> "w" @@ "X" :> "x" @@ "Y" :> "y" @@
    "Z" :> "z"
ToLower(s) == [ k \in 1..Len(s) |-> IF s[k] \in DOMAIN LowerMap THEN LowerMap[s[k]] ELSE s[k] ]

RECURSIVE Join(_, _)
\* strings.Join
Join(parts, sep) ==
    IF Len(parts) = 0 THEN << >>
    ELSE IF Len(parts) = 1 THEN parts[1]
    ELSE parts[1] \o sep \o Join(Tail(parts), sep)

(***************************************************************************)
(* extractJSONFromResponse, lines 639-661.                                 *)
(***************************************************************************)
\* The backquote character.
BQ == "bq"
startMarker == << BQ, BQ, BQ, "j", "s", "o", "n" >>
endMarker == << BQ, BQ, BQ >>

\* Variant of extractJSONFromResponse: the block ends at the last fence of the
\* response.
extractJSONFromResponse_LastFence(response) ==
    LET startIdx == Index(response, startMarker) IN
    IF startIdx = 0 - 1 THEN << >>
    ELSE LET from == startIdx + Len(startMarker)
             ends == { k \in from..Len(response) : HasAt(response, endMarker, k) } IN
         IF ends = {} THEN << >>
         ELSE TrimSpace(Slice(response, from, CHOOSE k \in ends : \A j \in ends : j <= k))

extractJSONFromResponse(response) ==
    LET startIdx == Index(response, startMarker) IN
    IF startIdx = 0 - 1 THEN << >>
    ELSE LET from == startIdx + Len(startMarker)
             endIdx == Index(Slice(response, from, Len(response)), endMarker) IN
         IF endIdx = 0 - 1 THEN << >>
         ELSE TrimSpace(Slice(response, from, from + endIdx))

(***************************************************************************)
(* encoding/json.  A JSON document is written as one character of the      *)
(* reply; JsonDocs gives, for each document that is a well-formed object,  *)
(* its members with their JSON types.  Unmarshal into a struct fails on    *)
(* text that is no well-formed document and on a member of the wrong type; *)
(* a member that is missing leaves the field at its zero value and an      *)
(* unknown member is ignored.                                              *)
(***************************************************************************)
\* A text of 20 characters.
Letters ==
    << "a", "b", "c", "d", "e", "f", "g", "h", "i", "j",
       "k", "l", "m", "n", "o", "p", "q", "r", "s", "t" >>

JString(v) == [ t |-> "string", v |-> v ]
JList(v) == [ t |-> "list", v |-> v ]
JNumber == [ t |-> "number", v |-> << >> ]

JsonDocs ==
    "{summary:s1}" :> ("summary" :> JString(<< "s", "1" >>) @@ "key_themes" :> JList(<< >>)) @@
    "{summary:s2}" :> ("summary" :> JString(<< "s", "2" >>)) @@
    "{summary:7}" :> ("summary" :> JNumber) @@
    "{summary:a-t}" :> ("summary" :> JString(Letters)) @@
    "{key_points:k1}" :> ("key_points" :> JList(<< << "k", "1" >> >>)) @@
    "{key_points:k2k3}" :> ("key_points" :> JList(<< << "k", "2" >>, << "k", "3" >> >>)) @@
    "{key_points:7}" :> ("key_points" :> JNumber) @@
    "{action_items:a1}" :> ("action_items" :> JList(<< "a1" >>)) @@
    "{action_items:a2}" :> ("action_items" :> JList(<< "a2" >>)) @@
    "{action_items:7}" :> ("action_items" :> JNumber) @@
    "{topics:t1}" :> ("topics" :> JList(<< "t1" >>)) @@
    "{topics:t2}" :> ("topics" :> JList(<< "t2" >>)) @@
    "{topics:7}" :> ("topics" :> JNumber) @@
    "{sentiment:pos}" :> ("sentiment" :> JString(<< "p", "o", "s" >>) @@
                          "keywords" :> JList(<< "w1" >>) @@ "confidence" :> JNumber) @@
    "{sentiment:neg}" :> ("sentiment" :> JString(<< "n", "e", "g" >>) @@
                          "keywords" :> JList(<< "w2" >>)) @@
    "{sentiment:7}" :> ("sentiment" :> JNumber) @@
    "{}" :> [ k \in {} |-> JNumber ]

\* shape: the members of the struct, json tag |-> JSON type.
Unmarshal(jsonData, shape) ==
    IF Len(jsonData) # 1 \/ jsonData[1] \notin DOMAIN JsonDocs
    THEN [ err |-> TRUE, val |-> [ k \in DOMAIN shape |-> << >> ] ]
    ELSE LET doc == JsonDocs[jsonData[1]] IN
         [ err |-> \E k \in DOMAIN shape : k \in DOMAIN doc /\ doc[k].t # shape[k],
           val |-> [ k \in DOMAIN shape |->
                       IF k \in DOMAIN doc /\ doc[k].t = shape[k] THEN doc[k].v
                       ELSE << >> ] ]

SummaryShape == "summary" :> "string" @@ "key_themes" :> "list"
KeyPointsShape == "key_points" :> "list"
ActionItemsShape == "action_items" :> "list"
TopicsShape == "topics" :> "list"
SentimentShape == "sentiment" :> "string" @@ "keywords" :> "list" @@ "confidence" :> "number"

(***************************************************************************)
(* addCitations, lines 1149-1191.  The metadata is                         *)
(* [GroundingChunks: the URIs, GroundingSupports: [EndIndex,               *)
(* GroundingChunkIndices]]; a URI is one character of the text.  An index  *)
(* out of range panics, as in Go.                                          *)
(***************************************************************************)
RECURSIVE BubbleInner_Ascending(_, _, _)
\* Variant of the inner loop: the supports are put in ascending order.
BubbleInner_Ascending(supports, j, limit) ==
    IF j >= limit THEN supports
    ELSE IF supports[j + 1].EndIndex > supports[j + 2].EndIndex
         THEN BubbleInner_Ascending([ supports EXCEPT ![j + 1] = supports[j + 2],
                                                      ![j + 2] = supports[j + 1] ],
                                    j + 1, limit)
         ELSE BubbleInner_Ascending(supports, j + 1, limit)

RECURSIVE BubbleInner_SwapEqual(_, _, _)
\* Variant of the inner loop: supports with the same end index are swapped too.
BubbleInner_SwapEqual(supports, j, limit) ==
    IF j >= limit THEN supports
    ELSE IF supports[j + 1].EndIndex <= supports[j + 2].EndIndex
         THEN BubbleInner_SwapEqual([ supports EXCEPT ![j + 1] = supports[j + 2],
                                                      ![j + 2] = supports[j + 1] ],
                                    j + 1, limit)
         ELSE BubbleInner_SwapEqual(supports, j + 1, limit)

RECURSIVE BubbleInner(_, _, _)
\* Lines 1162-1166: the inner loop from j (0-based) up to limit.
BubbleInner(supports, j, limit) ==
    IF j >= limit THEN supports
    ELSE IF supports[j + 1].EndIndex < supports[j + 2].EndIndex
         THEN BubbleInner([ supports EXCEPT ![j + 1] = supports[j + 2],
                                            ![j + 2] = supports[j + 1] ], j + 1, limit)
         ELSE BubbleInner(supports, j + 1, limit)

\* Variant of the sort: the supports stay in the order given.
BubbleOuter_Unsorted(supports, i) == supports

RECURSIVE BubbleOuter(_, _)
\* Lines 1161-1167: the outer loop from i (0-based).
BubbleOuter(supports, i) ==
    IF i >= Len(supports) THEN supports
    ELSE BubbleOuter(BubbleInner(supports, 0, Len(supports) - 1 - i), i + 1)

RECURSIVE Digits(_)
\* fmt.Sprintf("%d", n) for n >= 0.
Digits(n) ==
    LET d == << "0", "1", "2", "3", "4", "5", "6", "7", "8", "9" >> IN
    IF n < 10 THEN << d[n + 1] >> ELSE Digits(n \div 10) \o << d[(n % 10) + 1] >>
Sprintd(n) == IF n < 0 THEN << "-" >> \o Digits(0 - n) ELSE Digits(n)

RECURSIVE CitationLinks(_, _, _)
\* Lines 1173-1181: the links of the chunk indices from the k-th on;
\* [panic, links].
CitationLinks(indices, k, chunks) ==
    IF k > Len(indices) THEN [ panic |-> FALSE, links |-> << >> ]
    ELSE LET i == indices[k]
             rest == CitationLinks(indices, k + 1, chunks) IN
         IF i < Len(chunks)
         THEN IF i < 0 THEN [ panic |-> TRUE, links |-> << >> ]
              ELSE [ panic |-> rest.panic,
                     links |-> << << "[" >> \o Sprintd(i + 1) \o << "]", "(", chunks[i + 1], ")" >> >>
                               \o rest.links ]
         ELSE rest

RECURSIVE CitationLoop(_, _, _, _)
\* Lines 1169-1188: the loop over the sorted supports from the k-th on;
\* [panic, text].
CitationLoop(result, supports, k, chunks) ==
    IF k > Len(supports) THEN [ panic |-> FALSE, text |-> result ]
    ELSE LET endIndex == supports[k].EndIndex IN
         IF Len(supports[k].GroundingChunkIndices) > 0 /\ endIndex <= Len(result)
         THEN LET cl == CitationLinks(supports[k].GroundingChunkIndices, 1, chunks) IN
              IF cl.panic THEN [ panic |-> TRUE, text |-> result ]
              ELSE IF Len(cl.links) > 0
                   THEN IF endIndex < 0 THEN [ panic |-> TRUE, text |-> result ]
                        ELSE CitationLoop(Slice(result, 0, endIndex) \o << SPACE >>
                                            \o Join(cl.links, << ",", SPACE >>)
                                            \o Slice(result, endIndex, Len(result)),
                                          supports, k + 1, chunks)
                   ELSE CitationLoop(result, supports, k + 1, chunks)
         ELSE CitationLoop(result, supports, k + 1, chunks)

\* groundingMetadata is Nil or Some(metadata).
addCitations(text, groundingMetadata) ==
    IF IsNil(groundingMetadata) \/ Len(Deref(groundingMetadata).GroundingSupports) = 0
    THEN [ panic |-> FALSE, text |-> text ]
    ELSE CitationLoop(text, BubbleOuter(Deref(groundingMetadata).GroundingSupports, 0), 1,
                      Deref(groundingMetadata).GroundingChunks)

(***************************************************************************)
(* The record, NewAnalystAgent lines 111-121.                              *)
(***************************************************************************)
NewAnalysisData ==
    [ StartTime |-> 0, LastUpdated |-> 0, Transcript |-> << >>,
      Summary |-> << >>, GroundedSummary |-> Nil,
      KeyPoints |-> << >>, GroundedKeyPoints |-> Nil,
      ActionItems |-> << >>, Topics |-> << >>, Participants |-> << >>,
      DurationMinutes |-> 0, WordCount |-> 0, Sentiment |-> << >>,
      Keywords |-> << >> ]

(***************************************************************************)
(* Processes.                                                              *)
(***************************************************************************)
Ingesters == { "i1", "i2" }
Readers == { "r1" }
\* The goroutine started by the append that made the transcript n long is n;
\* the goroutines are DOMAIN cpc.

\* sync.RWMutex
CanLock == IsNil(dataMutex.writer) /\ dataMutex.readers = {}
CanRLock == IsNil(dataMutex.writer)

NoReaders == [ writer |-> Nil, readers |-> {} ]

(***************************************************************************)
(* ProcessUtterance, lines 133-192.                                        *)
(***************************************************************************)
\* The goroutine-local variables of a new updateAnalysis goroutine g.
Spawn(g) ==
    /\ cpc' = cpc @@ (g :> "start")
    /\ transcriptSnapshot' = transcriptSnapshot @@ (g :> << >>)
    /\ cbuf' = cbuf @@ (g :> Nil)
    /\ ran' = ran @@ (g :> << >>)

(***************************************************************************)
(* What the contract of Append expects of a batch, stated on the batch     *)
(* itself: these do not follow the code's loop.                            *)
(***************************************************************************)
HasText(seg) == seg.textOk /\ seg.text # << >>
HasSpeaker(seg) == seg.speakerOk /\ seg.speaker # ""
NoText(segs) == \A k \in 1..Len(segs) : ~HasText(segs[k])
LastSpeaker(segs) ==
    LET named == { k \in 1..Len(segs) : HasSpeaker(segs[k]) } IN
    IF named = {} THEN "Participant"
    ELSE segs[CHOOSE k \in named : \A j \in named : j <= k].speaker
\* The texts of the fragments that have one, in the order of the batch, with
\* one space between each two.
JoinedTexts(segs) ==
    LET texts == SelectSeq(segs, HasText) IN
    Join([ k \in 1..Len(texts) |-> texts[k].text ], << SPACE >>)
Expectation(segs) ==
    [ length |-> Len(segs), noText |-> NoText(segs), speaker |-> LastSpeaker(segs),
      text |-> JoinedTexts(segs) ]

\* Lines 133-181.  An empty batch returns at once.  Otherwise the caller takes
\* the lock and builds the entry: no text returns (the deferred unlock runs);
\* otherwise the entry is appended and the participants and counters updated.
\* Nothing that honours the lock can run between Lock and the append, so they
\* are one step.
ProcessUtterance_Append(i, segs) ==
    /\ ~crashed
    /\ ipc[i] = "idle"
    /\ spawned' = [spawned EXCEPT ![i] = FALSE]
    /\ expected' = [expected EXCEPT ![i] = Expectation(segs)]
    /\ IF Len(segs) = 0
       THEN /\ ireturn' = [ireturn EXCEPT ![i] = "empty_batch"]
            /\ UNCHANGED << ipc, dataMutex, lockOrder, data >>
       ELSE /\ CanLock
            /\ LET ex == Extract(segs, now) IN
               IF ex.fullText = << >>
               THEN /\ ireturn' = [ireturn EXCEPT ![i] = "no_text"]
                    /\ UNCHANGED << ipc, dataMutex, lockOrder, data >>
               ELSE /\ dataMutex' = [dataMutex EXCEPT !.writer = Some(i)]
                    /\ data' = AppendEntry(data, ex, now)
                    /\ lockOrder' = Append(lockOrder, i)
                    /\ ipc' = [ipc EXCEPT ![i] = "marshal"]
                    /\ ireturn' = [ireturn EXCEPT ![i] = "running"]
    /\ UNCHANGED << now, crashed, file, saveFailed, analysisMutex, lastAnalysis,
                    currentAnalysisSnapshot, config, ibuf, cpc, transcriptSnapshot,
                    cbuf, ran, rpc >>

\* saveAnalysis, line 1197: json.MarshalIndent(a.data).
ProcessUtterance_Marshal(i) ==
    /\ ~crashed
    /\ ipc[i] = "marshal"
    /\ ibuf' = [ibuf EXCEPT ![i] = Some(data)]
    /\ ipc' = [ipc EXCEPT ![i] = "write"]
    /\ UNCHANGED << now, crashed, data, file, saveFailed, dataMutex, analysisMutex,
                    lastAnalysis, currentAnalysisSnapshot, config, expected, ireturn,
                    spawned, cpc, transcriptSnapshot, cbuf, ran, rpc, lockOrder >>

\* Variant of the save in ProcessUtterance: a failed write takes the appended
\* entry back.
ProcessUtterance_Write_Rollback(i, ok) ==
    /\ ~crashed
    /\ ipc[i] = "write"
    /\ file' = IF ok THEN ibuf[i] ELSE file
    /\ saveFailed' = (saveFailed \/ ~ok)
    /\ ibuf' = [ibuf EXCEPT ![i] = Nil]
    /\ ipc' = [ipc EXCEPT ![i] = "trigger"]
    /\ data' = IF ok THEN data
               ELSE [ data EXCEPT !.Transcript = SubSeq(@, 1, Len(@) - 1) ]
    /\ UNCHANGED << now, crashed, dataMutex, analysisMutex, lastAnalysis,
                    currentAnalysisSnapshot, config, expected, ireturn, spawned, cpc,
                    transcriptSnapshot, cbuf, ran, rpc, lockOrder >>

\* saveAnalysis, line 1202: os.WriteFile, which succeeds (ok) or fails; the
\* error is logged (lines 184-186).
ProcessUtterance_Write(i, ok) ==
    /\ ~crashed
    /\ ipc[i] = "write"
    /\ file' = IF ok THEN ibuf[i] ELSE file
    /\ saveFailed' = (saveFailed \/ ~ok)
    /\ ibuf' = [ibuf EXCEPT ![i] = Nil]
    /\ ipc' = [ipc EXCEPT ![i] = "trigger"]
    /\ UNCHANGED << now, crashed, data, dataMutex, analysisMutex, lastAnalysis,
                    currentAnalysisSnapshot, config, expected, ireturn, spawned, cpc,
                    transcriptSnapshot, cbuf, ran, rpc, lockOrder >>

\* Lines 188-192: start a cycle if the trigger condition holds, unlock, return.
\* a.lastAnalysis is read without a.analysisMutex; a torn read of the time
\* decides the comparison like its old or like its new value.
ProcessUtterance_Trigger(i) ==
    /\ ~crashed
    /\ ipc[i] = "trigger"
    /\ IF TriggerCondition(lastAnalysis, Len(data.Transcript))
       THEN /\ Spawn(Len(data.Transcript))
            /\ spawned' = [spawned EXCEPT ![i] = TRUE]
       ELSE UNCHANGED << cpc, transcriptSnapshot, cbuf, ran, spawned >>
    /\ dataMutex' = [dataMutex EXCEPT !.writer = Nil]
    /\ ipc' = [ipc EXCEPT ![i] = "idle"]
    /\ ireturn' = [ireturn EXCEPT ![i] = "appended"]
    /\ UNCHANGED << now, crashed, data, file, saveFailed, analysisMutex, lastAnalysis,
                    currentAnalysisSnapshot, config, expected, ibuf, rpc, lockOrder >>

(***************************************************************************)
(* The LLM provider (a.llmProvider) and the prompts.  config.provider is   *)
(* "none" (GetProvider failed, the field is nil) or "google" (the          *)
(* GoogleProvider, a GroundingCapableProvider); config.available is        *)
(* whether the API key is set: IsAvailable() answers it, and without the   *)
(* key Call and CallWithGrounding return an error.  A reply of Call is     *)
(* [err, text], a reply of CallWithGrounding is [err, text, metadata].     *)
(***************************************************************************)
\* isSafeInstruction, lines 941-964.
MaxInstructionLength == 5000
harmfulPatterns ==
    << << "<", "s", "c", "r", "i", "p", "t" >>,
       << "j", "a", "v", "a", "s", "c", "r", "i", "p", "t", ":" >>,
       << "e", "v", "a", "l", "(" >>,
       << "f", "u", "n", "c", "t", "i", "o", "n", "(" >>,
       << "i", "m", "p", "o", "r", "t", SPACE >>,
       << "r", "e", "q", "u", "i", "r", "e", "(" >>,
       << "e", "x", "e", "c", "(" >>,
       << "s", "y", "s", "t", "e", "m", "(" >>,
       << "r", "m", SPACE >>,
       << "d", "e", "l", SPACE >>,
       << "f", "o", "r", "m", "a", "t", SPACE >>,
       << "d", "r", "o", "p", SPACE, "t", "a", "b", "l", "e" >>,
       << "a", "l", "t", "e", "r", SPACE, "t", "a", "b", "l", "e" >>,
       << "t", "r", "u", "n", "c", "a", "t", "e", SPACE, "t", "a", "b", "l", "e" >> >>

isSafeInstruction(instructions) ==
    /\ ~(Len(instructions) > MaxInstructionLength)
    /\ \A k \in 1..Len(harmfulPatterns) :
           ~Contains(ToLower(instructions), harmfulPatterns[k])

\* formatTranscriptForLLM, lines 714-723: one line per entry.
formatTranscriptForLLM(entries) ==
    [ k \in 1..Len(entries) |->
        << entries[k].Timestamp, entries[k].Speaker, entries[k].Text >> ]

Prompt(template, analysisType, instructions, transcript) ==
    [ template |-> template, analysisType |-> analysisType,
      instructions |-> instructions, transcript |-> transcript ]

\* A call of the provider as a task issued it: the method, what the prompt
\* asks for (the analysis type, or "taskPrompt" at line 926) and, of an
\* analysis call, the reply the provider gave.
CallOf(op, purpose, reply) == [ op |-> op, purpose |-> purpose, reply |-> reply ]

\* The analysis calls of a task that ran (entry: its record in ran), without
\* the requests for a task prompt.
AnalysisCalls(entry) == SelectSeq(entry.calls, LAMBDA c : c.purpose # "taskPrompt")

\* generateTaskPromptFromCustomInstructions, lines 899-938: a.llmProvider.Call
\* is called on the field as it is; on a nil interface the call panics.
generateTaskPromptFromCustomInstructions(analysisType, customInstructions, meta) ==
    IF config.provider = "none"
    THEN [ panic |-> TRUE, err |-> FALSE, taskPrompt |-> << >>, calls |-> << >> ]
    ELSE LET taskPrompt == IF meta.err THEN << >> ELSE TrimSpace(meta.text) IN
         [ panic |-> FALSE,
           err |-> meta.err \/ taskPrompt = << >>,
           taskPrompt |-> taskPrompt,
           calls |-> << CallOf("Call", "taskPrompt", Nil) >> ]

\* Variant of buildSecurePromptFromInstructions: when no task prompt was
\* generated, the prompt is the one built without custom instructions.
buildAnalysisPrompt_DefaultOnError(analysisType, transcript, meta) ==
    IF ~IsNil(config.customPrompt) /\ Deref(config.customPrompt) # << >>
    THEN IF ~isSafeInstruction(Deref(config.customPrompt))
         THEN [ panic |-> FALSE, calls |-> << >>,
                prompt |-> Prompt("getDefaultPrompt", analysisType, << >>, transcript) ]
         ELSE LET gen == generateTaskPromptFromCustomInstructions(
                             analysisType, Deref(config.customPrompt), meta) IN
              IF gen.panic
              THEN [ panic |-> TRUE, calls |-> << >>,
                     prompt |-> Prompt("none", analysisType, << >>, transcript) ]
              ELSE IF gen.err
                   THEN [ panic |-> FALSE, calls |-> gen.calls,
                          prompt |-> Prompt("default", analysisType, << >>, transcript) ]
                   ELSE [ panic |-> FALSE, calls |-> gen.calls,
                          prompt |-> Prompt("secure", analysisType, gen.taskPrompt,
                                            transcript) ]
    ELSE [ panic |-> FALSE, calls |-> << >>,
           prompt |-> Prompt("default", analysisType, << >>, transcript) ]

\* buildAnalysisPrompt, buildSecurePromptFromInstructions and buildDirectPrompt,
\* lines 726-896, for the five analysis types; [panic, prompt, calls].
buildAnalysisPrompt(analysisType, transcript, meta) ==
    IF ~IsNil(config.customPrompt) /\ Deref(config.customPrompt) # << >>
    THEN IF ~isSafeInstruction(Deref(config.customPrompt))
         THEN [ panic |-> FALSE, calls |-> << >>,
                prompt |-> Prompt("getDefaultPrompt", analysisType, << >>, transcript) ]
         ELSE LET gen == generateTaskPromptFromCustomInstructions(
                             analysisType, Deref(config.customPrompt), meta) IN
              IF gen.panic
              THEN [ panic |-> TRUE, calls |-> << >>,
                     prompt |-> Prompt("none", analysisType, << >>, transcript) ]
              ELSE IF gen.err
                   THEN [ panic |-> FALSE, calls |-> gen.calls,
                          prompt |-> Prompt("direct", analysisType,
                                            Deref(config.customPrompt), transcript) ]
                   ELSE [ panic |-> FALSE, calls |-> gen.calls,
                          prompt |-> Prompt("secure", analysisType, gen.taskPrompt,
                                            transcript) ]
    ELSE [ panic |-> FALSE, calls |-> << >>,
           prompt |-> Prompt("default", analysisType, << >>, transcript) ]

\* groundingProvider.CallWithGrounding(prompt), lines 310 and 385: the call as
\* the task's history keeps it.
CallWithGrounding(prompt, reply) ==
    << CallOf("CallWithGrounding", prompt.analysisType, Some(reply)) >>

\* Variant of callLLM: a call that failed is issued once more.
callLLM_Retry(prompt, reply) ==
    IF config.provider = "none" \/ ~config.available
    THEN [ err |-> TRUE, text |-> << >>, calls |-> << >> ]
    ELSE [ err |-> reply.err, text |-> IF reply.err THEN << >> ELSE reply.text,
           calls |-> IF reply.err
                     THEN << CallOf("Call", prompt.analysisType, Some(reply)),
                             CallOf("Call", prompt.analysisType, Some(reply)) >>
                     ELSE << CallOf("Call", prompt.analysisType, Some(reply)) >> ]
\* callLLM, lines 630-636.
callLLM(prompt, reply) ==
    IF config.provider = "none" \/ ~config.available
    THEN [ err |-> TRUE, text |-> << >>, calls |-> << >> ]
    ELSE [ err |-> reply.err, text |-> IF reply.err THEN << >> ELSE reply.text,
           calls |-> << CallOf("Call", prompt.analysisType, Some(reply)) >> ]

\* Variant of getRecentTranscript: the first count entries are returned.
TailWindow_Head(entries, count) ==
    SubSeq(entries, 1, IF count < Len(entries) THEN count ELSE Len(entries))
\* getRecentTranscript, lines 664-711.
TailWindow(entries, count) ==
    SubSeq(entries, Max(Len(entries) - count, 0) + 1, Len(entries))
\* Variant of getRecentTranscript: the live transcript is read.
getRecentTranscript_Live(count) == TailWindow(data.Transcript, count)
getRecentTranscript(count) ==
    IF ~IsNil(currentAnalysisSnapshot)
    THEN TailWindow(Deref(currentAnalysisSnapshot), count)
    ELSE TailWindow(data.Transcript, count)

SummaryWindow == 50
KeyPointsWindow == 30
ActionItemsWindow == 40
TopicsWindow == 50
SentimentWindow == 20

(***************************************************************************)
(* The five tasks.  Each gives [data, err, panic, calls]: the record after *)
(* the task, whether the task returned an error, whether it panicked, and  *)
(* the LLM calls it issued, in order.                                      *)
(***************************************************************************)
TaskResult(d, err, panic, calls) ==
    [ data |-> d, err |-> err, panic |-> panic, calls |-> calls ]

\* The assignments of a decoded result, lines 337, 410, 510, 569 and 620-621.
\* Variant of the assignments: the decoded action items and topics are
\* appended to the ones the record has.
Commit_Merge(analysisType, d, val) ==
    CASE analysisType = "summary" -> [ d EXCEPT !.Summary = val.summary ]
      [] analysisType = "key_points" -> [ d EXCEPT !.KeyPoints = val.key_points ]
      [] analysisType = "action_items" -> [ d EXCEPT !.ActionItems = @ \o val.action_items ]
      [] analysisType = "topics" -> [ d EXCEPT !.Topics = @ \o val.topics ]
      [] analysisType = "sentiment_keywords" ->
           [ d EXCEPT !.Sentiment = val.sentiment, !.Keywords = val.keywords ]

\* Variant of the assignments: a decoded value that is empty leaves the field
\* as it was.
Commit_KeepOnEmpty(analysisType, d, val) ==
    CASE analysisType = "summary" ->
           [ d EXCEPT !.Summary = IF val.summary = << >> THEN @ ELSE val.summary ]
      [] analysisType = "key_points" ->
           [ d EXCEPT !.KeyPoints = IF val.key_points = << >> THEN @ ELSE val.key_points ]
      [] analysisType = "action_items" ->
           [ d EXCEPT !.ActionItems = IF val.action_items = << >> THEN @
                                      ELSE val.action_items ]
      [] analysisType = "topics" ->
           [ d EXCEPT !.Topics = IF val.topics = << >> THEN @ ELSE val.topics ]
      [] analysisType = "sentiment_keywords" ->
           [ d EXCEPT !.Sentiment = IF val.sentiment = << >> THEN @ ELSE val.sentiment,
                      !.Keywords = IF val.keywords = << >> THEN @ ELSE val.keywords ]

Commit(analysisType, d, val) ==
    CASE analysisType = "summary" -> [ d EXCEPT !.Summary = val.summary ]
      [] analysisType = "key_points" -> [ d EXCEPT !.KeyPoints = val.key_points ]
      [] analysisType = "action_items" -> [ d EXCEPT !.ActionItems = val.action_items ]
      [] analysisType = "topics" -> [ d EXCEPT !.Topics = val.topics ]
      [] analysisType = "sentiment_keywords" ->
           [ d EXCEPT !.Sentiment = val.sentiment, !.Keywords = val.keywords ]

\* Variant of the handling of a plain reply: a reply without a fenced block is
\* an error of the task.
ParseAndCommit_MissIsError(d, text, shape, analysisType, hardErr, calls) ==
    IF text = << >> THEN TaskResult(d, FALSE, FALSE, calls)
    ELSE LET jsonData == extractJSONFromResponse(text) IN
         IF jsonData = << >> THEN TaskResult(d, TRUE, FALSE, calls)
         ELSE LET u == Unmarshal(jsonData, shape) IN
              IF u.err THEN TaskResult(d, hardErr, FALSE, calls)
              ELSE TaskResult(Commit(analysisType, d, u.val), FALSE, FALSE, calls)

\* The handling of a plain reply, e.g. lines 326-343: a reply without a fenced
\* block commits nothing; a block that does not decode is an error (hardErr:
\* whether the task returns it); otherwise Commit(d, val) is the record.
ParseAndCommit(d, text, shape, analysisType, hardErr, calls) ==
    IF text = << >> THEN TaskResult(d, FALSE, FALSE, calls)
    ELSE LET jsonData == extractJSONFromResponse(text) IN
         IF jsonData = << >> THEN TaskResult(d, FALSE, FALSE, calls)
         ELSE LET u == Unmarshal(jsonData, shape) IN
              IF u.err THEN TaskResult(d, hardErr, FALSE, calls)
              ELSE TaskResult(Commit(analysisType, d, u.val), FALSE, FALSE, calls)

PlainTask(d, b, reply, shape, analysisType, hardErr) ==
    LET r == callLLM(b.prompt, reply) IN
    IF r.err THEN TaskResult(d, TRUE, FALSE, b.calls \o r.calls)
    ELSE ParseAndCommit(d, r.text, shape, analysisType, hardErr, b.calls \o r.calls)

\* processSummaryWithGrounding, lines 1063-1101.  Line 1098 reads
\* groundedResponse.GroundingMetadata.GroundingChunks after the commit: with
\* nil metadata that is a nil dereference.
processSummaryWithGrounding(d, gr, calls) ==
    LET jsonData == extractJSONFromResponse(gr.text) IN
    IF jsonData = << >> THEN TaskResult(d, FALSE, FALSE, calls)
    ELSE LET u == Unmarshal(jsonData, SummaryShape) IN
         IF u.err THEN TaskResult(d, TRUE, FALSE, calls)
         ELSE LET d1 == [ d EXCEPT !.Summary = u.val.summary ]
                  cit == IF ~IsNil(gr.metadata)
                         THEN addCitations(u.val.summary, gr.metadata)
                         ELSE [ panic |-> FALSE, text |-> u.val.summary ]
                  d2 == [ d1 EXCEPT !.GroundedSummary =
                            Some([ Text |-> u.val.summary, TextWithCitations |-> cit.text,
                                   GroundingMetadata |-> gr.metadata ]) ] IN
              IF cit.panic THEN TaskResult(d1, FALSE, TRUE, calls)
              ELSE TaskResult(d2, FALSE, IsNil(gr.metadata), calls)

BULLET == "bullet"

\* processKeyPointsWithGrounding, lines 1104-1146; line 1143 as line 1098.
processKeyPointsWithGrounding(d, gr, calls) ==
    LET jsonData == extractJSONFromResponse(gr.text) IN
    IF jsonData = << >> THEN TaskResult(d, FALSE, FALSE, calls)
    ELSE LET u == Unmarshal(jsonData, KeyPointsShape) IN
         IF u.err THEN TaskResult(d, TRUE, FALSE, calls)
         ELSE LET d1 == [ d EXCEPT !.KeyPoints = u.val.key_points ]
                  joined == Join(u.val.key_points, << NEWLINE, BULLET, SPACE >>)
                  keyPointsText == IF joined # << >> THEN << BULLET, SPACE >> \o joined
                                   ELSE joined
                  cit == IF ~IsNil(gr.metadata)
                         THEN addCitations(keyPointsText, gr.metadata)
                         ELSE [ panic |-> FALSE, text |-> keyPointsText ]
                  d2 == [ d1 EXCEPT !.GroundedKeyPoints =
                            Some([ Text |-> keyPointsText, TextWithCitations |-> cit.text,
                                   GroundingMetadata |-> gr.metadata ]) ] IN
              IF cit.panic THEN TaskResult(d1, FALSE, TRUE, calls)
              ELSE TaskResult(d2, FALSE, IsNil(gr.metadata), calls)

\* generateSummary, lines 268-344.  meta, gr and pl are the replies the
\* provider gives to the calls the task issues.
generateSummary(d, meta, gr, pl) ==
    LET transcript == getRecentTranscript(SummaryWindow) IN
    IF Len(transcript) = 0 THEN TaskResult(d, FALSE, FALSE, << >>)
    ELSE LET b == buildAnalysisPrompt("summary", formatTranscriptForLLM(transcript), meta) IN
         IF b.panic THEN TaskResult(d, FALSE, TRUE, b.calls)
         ELSE IF config.provider = "google"
              THEN IF gr.err
                   THEN TaskResult(d, TRUE, FALSE, b.calls \o CallWithGrounding(b.prompt, gr))
                   ELSE processSummaryWithGrounding(
                            d, gr, b.calls \o CallWithGrounding(b.prompt, gr))
              ELSE PlainTask(d, b, pl, SummaryShape, "summary", TRUE)

\* extractKeyPoints, lines 347-417.
extractKeyPoints(d, meta, gr, pl) ==
    LET transcript == getRecentTranscript(KeyPointsWindow) IN
    IF Len(transcript) = 0 THEN TaskResult(d, FALSE, FALSE, << >>)
    ELSE LET b == buildAnalysisPrompt("key_points", formatTranscriptForLLM(transcript), meta) IN
         IF b.panic THEN TaskResult(d, FALSE, TRUE, b.calls)
         ELSE IF config.provider = "google"
              THEN IF gr.err
                   THEN PlainTask(d, [ b EXCEPT !.calls = @ \o CallWithGrounding(b.prompt, gr) ],
                                  pl, KeyPointsShape, "key_points", TRUE)
                   ELSE processKeyPointsWithGrounding(
                            d, gr, b.calls \o CallWithGrounding(b.prompt, gr))
              ELSE PlainTask(d, b, pl, KeyPointsShape, "key_points", TRUE)

\* identifyActionItems, lines 420-517.
identifyActionItems(d, meta, pl) ==
    LET transcript == getRecentTranscript(ActionItemsWindow) IN
    IF Len(transcript) = 0 THEN TaskResult(d, FALSE, FALSE, << >>)
    ELSE LET b == buildAnalysisPrompt("action_items", formatTranscriptForLLM(transcript), meta) IN
         IF b.panic THEN TaskResult(d, FALSE, TRUE, b.calls)
         ELSE PlainTask(d, b, pl, ActionItemsShape, "action_items", TRUE)

\* extractTopics, lines 520-574: a decode failure is logged and nil returned.
extractTopics(d, meta, pl) ==
    LET transcript == getRecentTranscript(TopicsWindow) IN
    IF Len(transcript) = 0 THEN TaskResult(d, FALSE, FALSE, << >>)
    ELSE LET b == buildAnalysisPrompt("topics", formatTranscriptForLLM(transcript), meta) IN
         IF b.panic THEN TaskResult(d, FALSE, TRUE, b.calls)
         ELSE PlainTask(d, b, pl, TopicsShape, "topics", FALSE)

\* analyzeSentimentAndKeywords, lines 577-625.
analyzeSentimentAndKeywords(d, meta, pl) ==
    LET transcript == getRecentTranscript(SentimentWindow) IN
    IF Len(transcript) = 0 THEN TaskResult(d, FALSE, FALSE, << >>)
    ELSE LET b == buildAnalysisPrompt("sentiment_keywords",
                                      formatTranscriptForLLM(transcript), meta) IN
         IF b.panic THEN TaskResult(d, FALSE, TRUE, b.calls)
         ELSE PlainTask(d, b, pl, SentimentShape, "sentiment_keywords", TRUE)

(***************************************************************************)
(* updateAnalysis, lines 205-265.                                          *)
(***************************************************************************)
\* Variant of lines 206-209: a.analysisMutex is not taken.
updateAnalysis_Lock_Unserialized(g) ==
    /\ ~crashed
    /\ cpc[g] = "start"
    /\ \A h \in DOMAIN cpc : cpc[h] = "start" => g <= h
    /\ analysisMutex' = Some(g)
    /\ lastAnalysis' = now
    /\ cpc' = [cpc EXCEPT ![g] = "snapshot"]
    /\ UNCHANGED << now, crashed, data, file, saveFailed, dataMutex,
                    currentAnalysisSnapshot, config, ipc, expected, ibuf, ireturn,
                    spawned, transcriptSnapshot, cbuf, ran, rpc, lockOrder >>

\* Lines 206-209.  Goroutines blocked in Lock have no state of their own:
\* the one started first stands for whichever gets the mutex.
updateAnalysis_Lock(g) ==
    /\ ~crashed
    /\ cpc[g] = "start"
    /\ \A h \in DOMAIN cpc : cpc[h] = "start" => g <= h
    /\ IsNil(analysisMutex)
    /\ analysisMutex' = Some(g)
    /\ lastAnalysis' = now
    /\ cpc' = [cpc EXCEPT ![g] = "snapshot"]
    /\ UNCHANGED << now, crashed, data, file, saveFailed, dataMutex,
                    currentAnalysisSnapshot, config, ipc, expected, ibuf, ireturn,
                    spawned, transcriptSnapshot, cbuf, ran, rpc, lockOrder >>

\* Variant of lines 212-225: the copy is of the transcript as it was when the
\* goroutine was started.
updateAnalysis_Snapshot_AsStarted(g) ==
    /\ ~crashed
    /\ cpc[g] = "snapshot"
    /\ CanRLock
    /\ transcriptSnapshot' = [transcriptSnapshot EXCEPT ![g] = SubSeq(data.Transcript, 1, g)]
    /\ cpc' = [cpc EXCEPT ![g] = "generateSummary"]
    /\ currentAnalysisSnapshot' = Some(SubSeq(data.Transcript, 1, g))
    /\ UNCHANGED << now, crashed, data, file, saveFailed, dataMutex, analysisMutex,
                    lastAnalysis, config, ipc, expected, ibuf, ireturn, spawned, cbuf,
                    ran, rpc, lockOrder >>

\* Variant of lines 212-225: the copy takes the write lock and keeps it.
updateAnalysis_Snapshot_KeepLock(g) ==
    /\ ~crashed
    /\ cpc[g] = "snapshot"
    /\ CanLock
    /\ transcriptSnapshot' = [transcriptSnapshot EXCEPT ![g] = data.Transcript]
    /\ IF Len(data.Transcript) = 0
       THEN /\ cpc' = [cpc EXCEPT ![g] = "done"]
            /\ analysisMutex' = Nil
            /\ UNCHANGED << currentAnalysisSnapshot, dataMutex >>
       ELSE /\ cpc' = [cpc EXCEPT ![g] = "generateSummary"]
            /\ currentAnalysisSnapshot' = Some(data.Transcript)
            /\ dataMutex' = [dataMutex EXCEPT !.writer = Some(g)]
            /\ UNCHANGED analysisMutex
    /\ UNCHANGED << now, crashed, data, file, saveFailed, lastAnalysis,
                    config, ipc, expected, ibuf, ireturn, spawned, cbuf, ran, rpc,
                    lockOrder >>

\* Lines 211-225: copy the transcript under the read lock; an empty
\* snapshot returns (the deferred unlock runs).
updateAnalysis_Snapshot(g) ==
    /\ ~crashed
    /\ cpc[g] = "snapshot"
    /\ CanRLock
    /\ transcriptSnapshot' = [transcriptSnapshot EXCEPT ![g] = data.Transcript]
    /\ IF Len(data.Transcript) = 0
       THEN /\ cpc' = [cpc EXCEPT ![g] = "done"]
            /\ analysisMutex' = Nil
            /\ UNCHANGED currentAnalysisSnapshot
       ELSE /\ cpc' = [cpc EXCEPT ![g] = "generateSummary"]
            /\ currentAnalysisSnapshot' = Some(data.Transcript)
            /\ UNCHANGED analysisMutex
    /\ UNCHANGED << now, crashed, data, file, saveFailed, dataMutex, lastAnalysis,
                    config, ipc, expected, ibuf, ireturn, spawned, cbuf, ran, rpc,
                    lockOrder >>

\* Variant of a task of the cycle: a task that returns an error ends the
\* cycle, and the deferred unlock releases a.analysisMutex.
RunTask_AbortOnError(g, task, next, window, res) ==
    /\ ~crashed
    /\ cpc[g] = task
    /\ data' = res.data
    /\ ran' = [ran EXCEPT ![g] = Append(@, [ task |-> task, read |-> window,
                                             err |-> res.err, calls |-> res.calls ])]
    /\ crashed' = res.panic
    /\ cpc' = [cpc EXCEPT ![g] = IF res.panic THEN "panic"
                                 ELSE IF res.err THEN "done" ELSE next]
    /\ analysisMutex' = IF res.err /\ ~res.panic THEN Nil ELSE analysisMutex
    /\ UNCHANGED << now, file, saveFailed, dataMutex, lastAnalysis,
                    currentAnalysisSnapshot, config, ipc, expected, ibuf, ireturn,
                    spawned, transcriptSnapshot, cbuf, rpc, lockOrder >>

\* One task of the cycle, lines 227-250: its error is logged and the next
\* task follows; a panic ends the process.  An LLM call touches nothing of
\* the agent, so the call and the handling of its reply are one step: the
\* goroutine is blocked in the call while it stands before this step.
RunTask(g, task, next, window, res) ==
    /\ ~crashed
    /\ cpc[g] = task
    /\ data' = res.data
    /\ ran' = [ran EXCEPT ![g] = Append(@, [ task |-> task, read |-> window,
                                             err |-> res.err, calls |-> res.calls ])]
    /\ crashed' = res.panic
    /\ cpc' = [cpc EXCEPT ![g] = IF res.panic THEN "panic" ELSE next]
    /\ UNCHANGED << now, file, saveFailed, dataMutex, analysisMutex, lastAnalysis,
                    currentAnalysisSnapshot, config, ipc, expected, ibuf, ireturn,
                    spawned, transcriptSnapshot, cbuf, rpc, lockOrder >>

updateAnalysis_generateSummary(g, meta, gr, pl) ==
    RunTask(g, "generateSummary", "extractKeyPoints",
            getRecentTranscript(SummaryWindow), generateSummary(data, meta, gr, pl))

updateAnalysis_extractKeyPoints(g, meta, gr, pl) ==
    RunTask(g, "extractKeyPoints", "identifyActionItems",
            getRecentTranscript(KeyPointsWindow), extractKeyPoints(data, meta, gr, pl))

updateAnalysis_identifyActionItems(g, meta, pl) ==
    RunTask(g, "identifyActionItems", "extractTopics",
            getRecentTranscript(ActionItemsWindow), identifyActionItems(data, meta, pl))

updateAnalysis_extractTopics(g, meta, pl) ==
    RunTask(g, "extractTopics", "analyzeSentimentAndKeywords",
            getRecentTranscript(TopicsWindow), extractTopics(data, meta, pl))

updateAnalysis_analyzeSentimentAndKeywords(g, meta, pl) ==
    RunTask(g, "analyzeSentimentAndKeywords", "clear",
            getRecentTranscript(SentimentWindow),
            analyzeSentimentAndKeywords(data, meta, pl))

\* Lines 252-256: clear the snapshot and take the write lock.
updateAnalysis_ClearAndLock(g) ==
    /\ ~crashed
    /\ cpc[g] = "clear"
    /\ CanLock
    /\ currentAnalysisSnapshot' = Nil
    /\ dataMutex' = [dataMutex EXCEPT !.writer = Some(g)]
    /\ cpc' = [cpc EXCEPT ![g] = "update"]
    /\ UNCHANGED << now, crashed, data, file, saveFailed, analysisMutex, lastAnalysis,
                    config, ipc, expected, ibuf, ireturn, spawned, transcriptSnapshot,
                    cbuf, ran, rpc, lockOrder >>

\* Lines 257-258.
updateAnalysis_Update(g) ==
    /\ ~crashed
    /\ cpc[g] = "update"
    /\ data' = [data EXCEPT !.LastUpdated = now]
    /\ dataMutex' = [dataMutex EXCEPT !.writer = Nil]
    /\ cpc' = [cpc EXCEPT ![g] = "marshal"]
    /\ UNCHANGED << now, crashed, file, saveFailed, analysisMutex, lastAnalysis,
                    currentAnalysisSnapshot, config, ipc, expected, ibuf, ireturn,
                    spawned, transcriptSnapshot, cbuf, ran, rpc, lockOrder >>

\* saveAnalysis called at line 260, line 1197: json.MarshalIndent(a.data),
\* with no lock held.
updateAnalysis_Marshal(g) ==
    /\ ~crashed
    /\ cpc[g] = "marshal"
    /\ cbuf' = [cbuf EXCEPT ![g] = Some(data)]
    /\ cpc' = [cpc EXCEPT ![g] = "write"]
    /\ UNCHANGED << now, crashed, data, file, saveFailed, dataMutex, analysisMutex,
                    lastAnalysis, currentAnalysisSnapshot, config, ipc, expected, ibuf,
                    ireturn, spawned, transcriptSnapshot, ran, rpc, lockOrder >>

\* saveAnalysis, line 1202: os.WriteFile; then lines 260-265 and the
\* deferred unlock of a.analysisMutex.
updateAnalysis_Write(g, ok) ==
    /\ ~crashed
    /\ cpc[g] = "write"
    /\ file' = IF ok THEN cbuf[g] ELSE file
    /\ saveFailed' = (saveFailed \/ ~ok)
    /\ cbuf' = [cbuf EXCEPT ![g] = Nil]
    /\ analysisMutex' = Nil
    /\ cpc' = [cpc EXCEPT ![g] = "done"]
    /\ UNCHANGED << now, crashed, data, dataMutex, lastAnalysis,
                    currentAnalysisSnapshot, config, ipc, expected, ibuf, ireturn,
                    spawned, transcriptSnapshot, ran, rpc, lockOrder >>

(***************************************************************************)
(* GetAnalysis, lines 1220-1245.                                           *)
(***************************************************************************)
\* The GroundedContent objects are allocated at lines 1083 and 1128 and never
\* written again by the agent; cycles are serialized, so the object that
\* a.data.GroundedSummary points to is the one the latest of the allocating
\* summary tasks made.  Its address is that task's number (0: the nil
\* pointer).
GroundedSummaryAddress ==
    IF IsNil(data.GroundedSummary) THEN 0
    ELSE Cardinality({ g \in DOMAIN ran :
            /\ Len(ran[g]) >= 1
            /\ AnalysisCalls(ran[g][1]) # << >>
            /\ LET call == AnalysisCalls(ran[g][1])[1]
                   jsonData == extractJSONFromResponse(Deref(call.reply).text) IN
               /\ call.op = "CallWithGrounding"
               /\ ~Deref(call.reply).err
               /\ jsonData # << >>
               /\ ~Unmarshal(jsonData, SummaryShape).err })

\* Lines 1221-1222.  rpc[r] is where the caller r stands (pc) and, of the
\* value it was given and kept, what that value shares with a.data (kept).
GetAnalysis_RLock(r) ==
    /\ ~crashed
    /\ rpc[r].pc = "idle"
    /\ CanRLock
    /\ dataMutex' = [dataMutex EXCEPT !.readers = @ \cup { r }]
    /\ rpc' = [rpc EXCEPT ![r].pc = "copy"]
    /\ UNCHANGED << now, crashed, data, file, saveFailed, analysisMutex, lastAnalysis,
                    currentAnalysisSnapshot, config, ipc, expected, ibuf, ireturn,
                    spawned, cpc, transcriptSnapshot, cbuf, ran, lockOrder >>

\* Lines 1225-1244 and the deferred RUnlock.  dataCopy := *a.data copies the
\* struct, and with it the pointers GroundedSummary and GroundedKeyPoints; the
\* slices Transcript, KeyPoints, ActionItems, Topics, Participants and
\* Keywords get arrays of their own (the elements of Topics are copied with
\* their Participants slice headers).  keep: whether the caller keeps the
\* value it is given.
GetAnalysis_Return(r, keep) ==
    /\ ~crashed
    /\ rpc[r].pc = "copy"
    /\ dataMutex' = [dataMutex EXCEPT !.readers = @ \ { r }]
    /\ rpc' = [rpc EXCEPT ![r] =
                 [ pc |-> "idle",
                   kept |-> IF keep THEN Some([ GroundedSummary |-> GroundedSummaryAddress ])
                            ELSE Nil ]]
    /\ UNCHANGED << now, crashed, data, file, saveFailed, analysisMutex, lastAnalysis,
                    currentAnalysisSnapshot, config, ipc, expected, ibuf, ireturn,
                    spawned, cpc, transcriptSnapshot, cbuf, ran, lockOrder >>

\* The caller of GetAnalysis writes through the value it was given and lets
\* go of it: into an element of the KeyPoints slice, or into the Text of the
\* GroundedContent that GroundedSummary points to.  The write lands in the
\* object; it is a write to a.data where a.data still points to that object.
Caller_Write(r, field) ==
    /\ ~crashed
    /\ rpc[r].pc = "idle"
    /\ ~IsNil(rpc[r].kept)
    /\ field = "GroundedSummary" => Deref(rpc[r].kept).GroundedSummary # 0
    /\ data' = IF /\ field = "GroundedSummary"
                  /\ Deref(rpc[r].kept).GroundedSummary = GroundedSummaryAddress
               THEN [ data EXCEPT !.GroundedSummary =
                        Some([ Deref(@) EXCEPT !.Text = << "x" >> ]) ]
               ELSE data
    /\ rpc' = [rpc EXCEPT ![r].kept = Nil]
    /\ UNCHANGED << now, crashed, file, saveFailed, dataMutex, analysisMutex,
                    lastAnalysis, currentAnalysisSnapshot, config, ipc, expected, ibuf,
                    ireturn, spawned, cpc, transcriptSnapshot, cbuf, ran, lockOrder >>

\* time.Now() advances.
\* Variant of the passing of time: a timer starts a cycle when the interval
\* has passed since the last one.
Tick_Timer ==
    /\ ~crashed
    /\ now' = now + 1
    /\ IF Since(lastAnalysis) > AnalysisInterval /\ Len(data.Transcript) \notin DOMAIN cpc
       THEN Spawn(Len(data.Transcript))
       ELSE UNCHANGED << cpc, transcriptSnapshot, cbuf, ran >>
    /\ UNCHANGED << crashed, data, file, saveFailed, dataMutex, analysisMutex,
                    lastAnalysis, currentAnalysisSnapshot, config, ipc, expected, ibuf,
                    ireturn, spawned, rpc, lockOrder >>

Tick ==
    /\ ~crashed
    /\ now' = now + 1
    /\ UNCHANGED << crashed, data, file, saveFailed, dataMutex, analysisMutex,
                    lastAnalysis, currentAnalysisSnapshot, config, ipc, expected, ibuf,
                    ireturn, spawned, cpc, transcriptSnapshot, cbuf, ran, rpc,
                    lockOrder >>

(***************************************************************************)
(* The state after NewAnalystAgent, lines 88-130, when no file exists.     *)
(***************************************************************************)
SafePrompt == << "o", "k" >>
UnsafePrompt == << "R", "m", SPACE, "x" >>
LongPrompt == [ k \in 1..(MaxInstructionLength + 1) |-> "a" ]
CustomPrompts ==
    { Nil, Some(<< >>), Some(SafePrompt), Some(UnsafePrompt), Some(LongPrompt) }
Configs ==
    { c \in [ provider : { "none", "google" }, available : BOOLEAN,
              customPrompt : CustomPrompts ] :
        c.provider = "none" => ~c.available }

InitWith(cfgs, times) ==
    /\ now \in times
    /\ crashed = FALSE
    /\ data = NewAnalysisData
    /\ file = Nil
    /\ saveFailed = FALSE
    /\ dataMutex = NoReaders
    /\ analysisMutex = Nil
    /\ lastAnalysis = ZeroTime
    /\ currentAnalysisSnapshot = Nil
    /\ config \in cfgs
    /\ ipc = [i \in Ingesters |-> "idle"]
    /\ expected = [i \in Ingesters |-> Expectation(<< >>)]
    /\ ibuf = [i \in Ingesters |-> Nil]
    /\ ireturn = [i \in Ingesters |-> "none"]
    /\ spawned = [i \in Ingesters |-> FALSE]
    /\ cpc = << >>
    /\ transcriptSnapshot = << >>
    /\ cbuf = << >>
    /\ ran = << >>
    /\ rpc = [r \in Readers |-> [ pc |-> "idle", kept |-> Nil ]]
    /\ lockOrder = << >>

(***************************************************************************)
(* Ingestion alone: one caller, every batch of at most MaxFragments        *)
(* segments.                                                               *)
(***************************************************************************)
IngestSegments ==
    { Segment(TRUE, "ann", TRUE, << "a" >>, FALSE, 0),
      Segment(TRUE, "bob", TRUE, << "a" >>, FALSE, 0),
      Segment(TRUE, "bob", TRUE, << >>, FALSE, 0),
      Segment(TRUE, "", TRUE, << "a" >>, FALSE, 0),
      Segment(FALSE, "", FALSE, << >>, FALSE, 0) }
IngestBatches == SeqsUpTo(IngestSegments, MaxFragments)

\* The calls arrive some time after the construction.
InitIngest ==
    InitWith({ [ provider |-> "none", available |-> FALSE, customPrompt |-> Nil ] },
             0..MaxTime)

NextIngest ==
    \/ \E segs \in IngestBatches :
           /\ Len(data.Transcript) < MaxTranscript
           /\ ProcessUtterance_Append("i1", segs)
    \/ ProcessUtterance_Marshal("i1")
    \/ ProcessUtterance_Write("i1", TRUE)
    \/ ProcessUtterance_Trigger("i1")

SpecIngest == InitIngest /\ [][NextIngest]_vars

(***************************************************************************)
(* The replies of the provider.  A provider that is not available answers  *)
(* every call with an error.                                               *)
(***************************************************************************)
Fenced(doc) ==
    << "o", "k", SPACE >> \o startMarker \o << SPACE, doc, SPACE >> \o endMarker
       \o << SPACE, "x" >>
\* A reply that opens a block and never closes it.
Unclosed(doc) == << "o", "k", SPACE >> \o startMarker \o << SPACE, doc >>
Failure == [ err |-> TRUE, text |-> << >> ]
Reply(text) == [ err |-> FALSE, text |-> text ]
GroundedFailure == [ err |-> TRUE, text |-> << >>, metadata |-> Nil ]
GroundedReply(text, metadata) == [ err |-> FALSE, text |-> text, metadata |-> metadata ]
Usable(replies) == { r \in replies : config.available \/ r.err }

OneSupport ==
    Some([ GroundingChunks |-> << "u1" >>,
           GroundingSupports |-> << [ EndIndex |-> 1, GroundingChunkIndices |-> << 0 >> ] >> ])

(***************************************************************************)
(* The agent under concurrent callers: two callers of ProcessUtterance,    *)
(* one of GetAnalysis, and the cycles the appends start.                   *)
(***************************************************************************)
\* Each caller sends batches under its own speaker name, so that an entry
\* tells which call appended it.
Batches(i) ==
    { << Segment(TRUE, i, TRUE, << >>, FALSE, 0) >>,
      << Segment(TRUE, i, TRUE, << "a" >>, FALSE, 0) >> }

MetaReplies == { Failure }
SummaryGrounded == { GroundedFailure, GroundedReply(Fenced("{summary:s1}"), OneSupport) }
KeyPointsGrounded == { GroundedFailure }
SummaryReplies == { Failure }
KeyPointsReplies == { Reply(Fenced("{key_points:k1}")) }
ActionItemsReplies == { Failure }
TopicsReplies == { Reply(Fenced("{topics:7}")) }
SentimentReplies == { Reply(<< "o", "k" >>) }

Init ==
    InitWith({ [ provider |-> "google", available |-> TRUE, customPrompt |-> Nil ] }, { 0 })

Next ==
    \/ \E i \in Ingesters : \E segs \in Batches(i) :
           /\ Len(data.Transcript) < MaxTranscript
           /\ ProcessUtterance_Append(i, segs)
    \/ \E i \in Ingesters : ProcessUtterance_Marshal(i)
    \/ \E i \in Ingesters, ok \in BOOLEAN : ProcessUtterance_Write(i, ok)
    \/ \E i \in Ingesters : ProcessUtterance_Trigger(i)
    \/ \E g \in DOMAIN cpc : updateAnalysis_Lock(g)
    \/ \E g \in DOMAIN cpc : updateAnalysis_Snapshot(g)
    \/ \E g \in DOMAIN cpc, meta \in Usable(MetaReplies), gr \in Usable(SummaryGrounded),
          pl \in Usable(SummaryReplies) :
           updateAnalysis_generateSummary(g, meta, gr, pl)
    \/ \E g \in DOMAIN cpc, meta \in Usable(MetaReplies), gr \in Usable(KeyPointsGrounded),
          pl \in Usable(KeyPointsReplies) :
           updateAnalysis_extractKeyPoints(g, meta, gr, pl)
    \/ \E g \in DOMAIN cpc, meta \in Usable(MetaReplies), pl \in Usable(ActionItemsReplies) :
           updateAnalysis_identifyActionItems(g, meta, pl)
    \/ \E g \in DOMAIN cpc, meta \in Usable(MetaReplies), pl \in Usable(TopicsReplies) :
           updateAnalysis_extractTopics(g, meta, pl)
    \/ \E g \in DOMAIN cpc, meta \in Usable(MetaReplies), pl \in Usable(SentimentReplies) :
           updateAnalysis_analyzeSentimentAndKeywords(g, meta, pl)
    \/ \E g \in DOMAIN cpc : updateAnalysis_ClearAndLock(g)
    \/ \E g \in DOMAIN cpc : updateAnalysis_Update(g)
    \/ \E g \in DOMAIN cpc : updateAnalysis_Marshal(g)
    \/ \E g \in DOMAIN cpc, ok \in BOOLEAN : updateAnalysis_Write(g, ok)
    \/ \E r \in Readers : GetAnalysis_RLock(r)
    \/ \E r \in Readers : GetAnalysis_Return(r, FALSE)

Spec == Init /\ [][Next]_vars

(***************************************************************************)
(* The same callers and cycles with a scheduler that lets every goroutine  *)
(* run: a step that needs no lock is taken if it stays possible, and a     *)
(* goroutine waiting for a.analysisMutex or a.dataMutex gets it if it is   *)
(* free again and again (sync.Mutex and sync.RWMutex do not starve a       *)
(* waiter).  The LLM calls and the writes return; the grounded reply about *)
(* the summary may also come without grounding metadata.  Nothing obliges  *)
(* a caller to begin a call.                                               *)
(***************************************************************************)
NextLive ==
    \/ Next
    \/ \E g \in DOMAIN cpc :
           updateAnalysis_generateSummary(g, Failure,
                                          GroundedReply(Fenced("{summary:s1}"), Nil), Failure)

Fairness ==
    /\ WF_vars(\E i \in Ingesters :
                  \/ ProcessUtterance_Marshal(i)
                  \/ ProcessUtterance_Write(i, TRUE)
                  \/ ProcessUtterance_Trigger(i))
    /\ WF_vars(\E r \in Readers : GetAnalysis_Return(r, FALSE))
    \* the steps of a cycle that wait for a lock: only one cycle is past Lock
    /\ SF_vars(\E g \in DOMAIN cpc :
                  \/ updateAnalysis_Lock(g)
                  \/ updateAnalysis_Snapshot(g)
                  \/ updateAnalysis_ClearAndLock(g))
    \* its tasks, the update of LastUpdated and the save
    \* weak fairness of these steps, which are possible whenever a cycle is
    \* at one of them and the process has not ended
    /\ \/ []<>(crashed \/ \A g \in DOMAIN cpc : cpc[g] \in { "start", "snapshot", "clear", "done" })
       \/ []<><<\E g \in DOMAIN cpc :
                   /\ cpc[g] \notin { "start", "snapshot", "clear" }
                   /\ cpc'[g] # cpc[g]>>_vars

SpecLive == Init /\ [][NextLive]_vars /\ Fairness

(***************************************************************************)
(* One cycle under every configuration of the agent and every outcome of   *)
(* the calls it makes: one utterance starts the cycle.                     *)
(***************************************************************************)
Plain(doc, bad) ==
    { Failure, Reply(<< "n", "o" >>), Reply(Unclosed(doc)), Reply(Fenced(bad)),
      Reply(Fenced(doc)) }
Grounded(doc, bad) ==
    { GroundedFailure,
      GroundedReply(<< "n", "o" >>, Nil),
      GroundedReply(Unclosed(doc), Nil),
      GroundedReply(Fenced(bad), OneSupport),
      GroundedReply(Fenced(doc), OneSupport),
      GroundedReply(Fenced(doc), Nil) }
CycleMetaReplies == { Failure, Reply(<< SPACE >>), Reply(<< "g", "o" >>) }
CycleBatch == << Segment(TRUE, "ann", TRUE, << "a" >>, FALSE, 0) >>

InitCycle == InitWith(Configs, { 0 })

NextCycle ==
    \/ Len(data.Transcript) = 0 /\ ProcessUtterance_Append("i1", CycleBatch)
    \/ ProcessUtterance_Marshal("i1")
    \/ ProcessUtterance_Write("i1", TRUE)
    \/ ProcessUtterance_Trigger("i1")
    \/ \E g \in DOMAIN cpc : updateAnalysis_Lock(g)
    \/ \E g \in DOMAIN cpc : updateAnalysis_Snapshot(g)
    \/ \E g \in DOMAIN cpc, meta \in Usable(CycleMetaReplies),
          gr \in Usable(Grounded("{summary:s1}", "{summary:7}")),
          pl \in Usable(Plain("{summary:s2}", "{summary:7}")) :
           updateAnalysis_generateSummary(g, meta, gr, pl)
    \/ \E g \in DOMAIN cpc, meta \in Usable(CycleMetaReplies),
          gr \in Usable(Grounded("{key_points:k1}", "{key_points:7}")),
          pl \in Usable(Plain("{key_points:k2k3}", "{key_points:7}")) :
           updateAnalysis_extractKeyPoints(g, meta, gr, pl)
    \/ \E g \in DOMAIN cpc, meta \in Usable(CycleMetaReplies),
          pl \in Usable(Plain("{action_items:a1}", "{action_items:7}")) :
           updateAnalysis_identifyActionItems(g, meta, pl)
    \/ \E g \in DOMAIN cpc, meta \in Usable(CycleMetaReplies),
          pl \in Usable(Plain("{topics:t1}", "{topics:7}")) :
           updateAnalysis_extractTopics(g, meta, pl)
    \/ \E g \in DOMAIN cpc, meta \in Usable(CycleMetaReplies),
          pl \in Usable(Plain("{sentiment:pos}", "{sentiment:")) :
           updateAnalysis_analyzeSentimentAndKeywords(g, meta, pl)
    \/ \E g \in DOMAIN cpc : updateAnalysis_ClearAndLock(g)
    \/ \E g \in DOMAIN cpc : updateAnalysis_Update(g)
    \/ \E g \in DOMAIN cpc : updateAnalysis_Marshal(g)
    \/ \E g \in DOMAIN cpc : updateAnalysis_Write(g, TRUE)

SpecCycle == InitCycle /\ [][NextCycle]_vars

(***************************************************************************)
(* The fenced block: one cycle in which the reply about the action items   *)
(* is a block (inner, with white space around it) between some prose before *)
(* the marker and some text after the closing fence, a second block too.   *)
(***************************************************************************)
ExtractCases ==
    { [ inner |-> inner,
        text |-> pre \o startMarker \o lead \o inner \o trail \o endMarker \o post ] :
        pre \in { << >>, << "o", "k", SPACE >>, endMarker \o << SPACE >>, << BQ >> },
        lead \in { << >>, << SPACE >>, << NEWLINE, SPACE >> },
        inner \in { << >>, << "{action_items:a1}" >>, << "a", SPACE, "b" >> },
        trail \in { << >>, << SPACE >>, << NEWLINE, SPACE >> },
        post \in { << >>, << SPACE, "x" >>, endMarker,
                   << SPACE >> \o startMarker \o << "{action_items:a2}" >> \o endMarker } }

InitExtract ==
    InitWith({ [ provider |-> "google", available |-> TRUE, customPrompt |-> Nil ] }, { 0 })

NextExtract ==
    \/ Len(data.Transcript) = 0 /\ ProcessUtterance_Append("i1", CycleBatch)
    \/ ProcessUtterance_Marshal("i1")
    \/ ProcessUtterance_Write("i1", TRUE)
    \/ ProcessUtterance_Trigger("i1")
    \/ \E g \in DOMAIN cpc : updateAnalysis_Lock(g)
    \/ \E g \in DOMAIN cpc : updateAnalysis_Snapshot(g)
    \/ \E g \in DOMAIN cpc :
           updateAnalysis_generateSummary(g, Failure, GroundedFailure, Failure)
    \/ \E g \in DOMAIN cpc :
           updateAnalysis_extractKeyPoints(g, Failure, GroundedFailure, Failure)
    \/ \E g \in DOMAIN cpc, c \in ExtractCases :
           updateAnalysis_identifyActionItems(g, Failure, Reply(c.text))
    \/ \E g \in DOMAIN cpc : updateAnalysis_extractTopics(g, Failure, Failure)
    \/ \E g \in DOMAIN cpc : updateAnalysis_analyzeSentimentAndKeywords(g, Failure, Failure)
    \/ \E g \in DOMAIN cpc : updateAnalysis_ClearAndLock(g)
    \/ \E g \in DOMAIN cpc : updateAnalysis_Update(g)
    \/ \E g \in DOMAIN cpc : updateAnalysis_Marshal(g)
    \/ \E g \in DOMAIN cpc : updateAnalysis_Write(g, TRUE)

SpecExtract == InitExtract /\ [][NextExtract]_vars

(***************************************************************************)
(* The citations: one cycle in which the grounded reply about the summary  *)
(* holds a summary of 20 characters and grounding metadata of two chunks   *)
(* and at most MaxSupports supports; an end index lies before, in, at the  *)
(* end of or behind the text, a chunk index before, in or behind the       *)
(* chunks.                                                                 *)
(***************************************************************************)
CiteMetadata ==
    { [ GroundingChunks |-> << "u1", "u2" >>, GroundingSupports |-> supports ] :
        supports \in SeqsUpTo([ EndIndex : { 0 - 1, 10, 20, 21 },
                                GroundingChunkIndices :
                                    { << >>, << 0 >>, << 1 >>, << 2 >>, << 2, 0 >>, << 0, 1 >>,
                                      << 0 - 1, 0 >> } ],
                              MaxSupports) }

NextCite ==
    \/ Len(data.Transcript) = 0 /\ ProcessUtterance_Append("i1", CycleBatch)
    \/ ProcessUtterance_Marshal("i1")
    \/ ProcessUtterance_Write("i1", TRUE)
    \/ ProcessUtterance_Trigger("i1")
    \/ \E g \in DOMAIN cpc : updateAnalysis_Lock(g)
    \/ \E g \in DOMAIN cpc : updateAnalysis_Snapshot(g)
    \/ \E g \in { h \in DOMAIN cpc : cpc[h] = "generateSummary" }, metadata \in CiteMetadata :
           updateAnalysis_generateSummary(
               g, Failure, GroundedReply(Fenced("{summary:a-t}"), Some(metadata)), Failure)
    \/ \E g \in DOMAIN cpc :
           updateAnalysis_extractKeyPoints(g, Failure, GroundedFailure, Failure)
    \/ \E g \in DOMAIN cpc : updateAnalysis_identifyActionItems(g, Failure, Failure)
    \/ \E g \in DOMAIN cpc : updateAnalysis_extractTopics(g, Failure, Failure)
    \/ \E g \in DOMAIN cpc : updateAnalysis_analyzeSentimentAndKeywords(g, Failure, Failure)
    \/ \E g \in DOMAIN cpc : updateAnalysis_ClearAndLock(g)
    \/ \E g \in DOMAIN cpc : updateAnalysis_Update(g)
    \/ \E g \in DOMAIN cpc : updateAnalysis_Marshal(g)
    \/ \E g \in DOMAIN cpc : updateAnalysis_Write(g, TRUE)

SpecCite == InitExtract /\ [][NextCite]_vars

(***************************************************************************)
(* The readers: two callers of ProcessUtterance, the cycles they start     *)
(* (each commits a grounded summary and key points), and a caller of       *)
(* GetAnalysis that keeps the value it is given and writes through it.     *)
(***************************************************************************)
InitRead ==
    InitWith({ [ provider |-> "google", available |-> TRUE, customPrompt |-> Nil ] }, { 0 })

NextRead ==
    \/ \E i \in Ingesters :
           /\ ireturn[i] = "none"
           /\ ProcessUtterance_Append(i, << Segment(TRUE, i, TRUE, << "a" >>, FALSE, 0) >>)
    \/ \E i \in Ingesters : ProcessUtterance_Marshal(i)
    \/ \E i \in Ingesters : ProcessUtterance_Write(i, TRUE)
    \/ \E i \in Ingesters : ProcessUtterance_Trigger(i)
    \/ \E g \in DOMAIN cpc : updateAnalysis_Lock(g)
    \/ \E g \in DOMAIN cpc : updateAnalysis_Snapshot(g)
    \/ \E g \in DOMAIN cpc :
           updateAnalysis_generateSummary(
               g, Failure, GroundedReply(Fenced("{summary:s1}"), OneSupport), Failure)
    \/ \E g \in DOMAIN cpc :
           updateAnalysis_extractKeyPoints(g, Failure, GroundedFailure,
                                           Reply(Fenced("{key_points:k1}")))
    \/ \E g \in DOMAIN cpc : updateAnalysis_identifyActionItems(g, Failure, Failure)
    \/ \E g \in DOMAIN cpc : updateAnalysis_extractTopics(g, Failure, Failure)
    \/ \E g \in DOMAIN cpc : updateAnalysis_analyzeSentimentAndKeywords(g, Failure, Failure)
    \/ \E g \in DOMAIN cpc : updateAnalysis_ClearAndLock(g)
    \/ \E g \in DOMAIN cpc : updateAnalysis_Update(g)
    \/ \E g \in DOMAIN cpc : updateAnalysis_Marshal(g)
    \/ \E g \in DOMAIN cpc : updateAnalysis_Write(g, TRUE)
    \/ \E r \in Readers : GetAnalysis_RLock(r)
    \/ \E r \in Readers : GetAnalysis_Return(r, TRUE)
    \/ \E r \in Readers, field \in { "KeyPoints", "GroundedSummary" } : Caller_Write(r, field)

SpecRead == InitRead /\ [][NextRead]_vars

(***************************************************************************)
(* The trigger: one caller, time passing, from a fresh agent and from an   *)
(* agent whose transcript is MaxTranscript entries short of the batch      *)
(* size (its first entry started a cycle at time 0 that committed nothing; *)
(* goroutines that have returned are not kept).                            *)
(***************************************************************************)
TriggerBatch == << Segment(TRUE, "ann", TRUE, << "a" >>, TRUE, 0) >>
NoProvider == [ provider |-> "none", available |-> FALSE, customPrompt |-> Nil ]

RECURSIVE Ingested(_)
\* The record after n utterances of TriggerBatch at time 0.
Ingested(n) ==
    IF n = 0 THEN NewAnalysisData
    ELSE AppendEntry(Ingested(n - 1), Extract(TriggerBatch, 0), 0)

InitTrigger ==
    \E n \in { 0, BatchSize - MaxTranscript } :
        /\ now = 0
        /\ crashed = FALSE
        /\ data = Ingested(n)
        /\ file = IF n = 0 THEN Nil ELSE Some(Ingested(n))
        /\ saveFailed = FALSE
        /\ dataMutex = NoReaders
        /\ analysisMutex = Nil
        /\ lastAnalysis = IF n = 0 THEN ZeroTime ELSE 0
        /\ currentAnalysisSnapshot = Nil
        /\ config = NoProvider
        /\ ipc = [i \in Ingesters |-> "idle"]
        /\ expected = [i \in Ingesters |-> Expectation(<< >>)]
        /\ ibuf = [i \in Ingesters |-> Nil]
        /\ ireturn = [i \in Ingesters |-> "none"]
        /\ spawned = [i \in Ingesters |-> FALSE]
        /\ cpc = << >>
        /\ transcriptSnapshot = << >>
        /\ cbuf = << >>
        /\ ran = << >>
        /\ rpc = [r \in Readers |-> [ pc |-> "idle", kept |-> Nil ]]
        /\ lockOrder = << >>

NextTrigger ==
    \/ Len(lockOrder) < MaxTranscript /\ ProcessUtterance_Append("i1", TriggerBatch)
    \/ ProcessUtterance_Marshal("i1")
    \/ ProcessUtterance_Write("i1", TRUE)
    \/ ProcessUtterance_Trigger("i1")
    \/ \E g \in DOMAIN cpc : updateAnalysis_Lock(g)
    \/ \E g \in DOMAIN cpc : updateAnalysis_Snapshot(g)
    \/ \E g \in DOMAIN cpc : updateAnalysis_generateSummary(g, Failure, GroundedFailure, Failure)
    \/ \E g \in DOMAIN cpc : updateAnalysis_extractKeyPoints(g, Failure, GroundedFailure, Failure)
    \/ \E g \in DOMAIN cpc : updateAnalysis_identifyActionItems(g, Failure, Failure)
    \/ \E g \in DOMAIN cpc : updateAnalysis_extractTopics(g, Failure, Failure)
    \/ \E g \in DOMAIN cpc : updateAnalysis_analyzeSentimentAndKeywords(g, Failure, Failure)
    \/ \E g \in DOMAIN cpc : updateAnalysis_ClearAndLock(g)
    \/ \E g \in DOMAIN cpc : updateAnalysis_Update(g)
    \/ \E g \in DOMAIN cpc : updateAnalysis_Marshal(g)
    \/ \E g \in DOMAIN cpc : updateAnalysis_Write(g, TRUE)
    \/ now < AnalysisInterval + MaxTime /\ Tick

SpecTrigger == InitTrigger /\ [][NextTrigger]_vars

(***************************************************************************)
(* The restart: the process ends at any moment and NewAnalystAgent runs    *)
(* again for the same agentID.  The path of the file holds agentID and the *)
(* second of the construction, line 95; file is the file at the path of    *)
(* the running agent, whose second is that of data.StartTime.  A minute of *)
(* the model has many seconds: a construction in the minute of the earlier *)
(* one falls into the same second or not.                                  *)
(***************************************************************************)
\* loadAnalysis, lines 1206-1217, on a record d: the file at path, Nil where
\* there is none.
loadAnalysis(d, path) == IF IsNil(path) THEN d ELSE Deref(path)

\* Lines 88-130 in a new process; the goroutines of the old one are gone.
NewAnalystAgent(sameSecond) ==
    /\ sameSecond => now = data.StartTime
    /\ file' = IF sameSecond THEN file ELSE Nil
    /\ data' = loadAnalysis([ NewAnalysisData EXCEPT !.StartTime = now, !.LastUpdated = now ],
                            file')
    /\ crashed' = FALSE
    /\ saveFailed' = FALSE
    /\ dataMutex' = NoReaders
    /\ analysisMutex' = Nil
    /\ lastAnalysis' = ZeroTime
    /\ currentAnalysisSnapshot' = Nil
    /\ ipc' = [i \in Ingesters |-> "idle"]
    /\ expected' = [i \in Ingesters |-> Expectation(<< >>)]
    /\ ibuf' = [i \in Ingesters |-> Nil]
    /\ ireturn' = [i \in Ingesters |-> "none"]
    /\ spawned' = [i \in Ingesters |-> FALSE]
    /\ cpc' = << >>
    /\ transcriptSnapshot' = << >>
    /\ cbuf' = << >>
    /\ ran' = << >>
    /\ rpc' = [r \in Readers |-> [ pc |-> "idle", kept |-> Nil ]]
    /\ lockOrder' = << >>
    /\ UNCHANGED << now, config >>

NextRestart ==
    \/ Len(data.Transcript) < MaxTranscript /\ ProcessUtterance_Append("i1", CycleBatch)
    \/ ProcessUtterance_Marshal("i1")
    \/ ProcessUtterance_Write("i1", TRUE)
    \/ ProcessUtterance_Trigger("i1")
    \/ \E g \in DOMAIN cpc : updateAnalysis_Lock(g)
    \/ \E g \in DOMAIN cpc : updateAnalysis_Snapshot(g)
    \/ \E g \in DOMAIN cpc :
           updateAnalysis_generateSummary(g, Failure,
                                          GroundedReply(Fenced("{summary:s1}"), OneSupport),
                                          Failure)
    \/ \E g \in DOMAIN cpc :
           updateAnalysis_extractKeyPoints(g, Failure, GroundedFailure,
                                           Reply(Fenced("{key_points:k1}")))
    \/ \E g \in DOMAIN cpc :
           updateAnalysis_identifyActionItems(g, Failure, Reply(Fenced("{action_items:a1}")))
    \/ \E g \in DOMAIN cpc :
           updateAnalysis_extractTopics(g, Failure, Reply(Fenced("{topics:t1}")))
    \/ \E g \in DOMAIN cpc :
           updateAnalysis_analyzeSentimentAndKeywords(g, Failure,
                                                      Reply(Fenced("{sentiment:pos}")))
    \/ \E g \in DOMAIN cpc : updateAnalysis_ClearAndLock(g)
    \/ \E g \in DOMAIN cpc : updateAnalysis_Update(g)
    \/ \E g \in DOMAIN cpc : updateAnalysis_Marshal(g)
    \/ \E g \in DOMAIN cpc : updateAnalysis_Write(g, TRUE)
    \/ now < MaxTime /\ Tick
    \/ \E sameSecond \in BOOLEAN : NewAnalystAgent(sameSecond)

SpecRestart == InitExtract /\ [][NextRestart]_vars

(***************************************************************************)
(* Cycles one after another: each append of one caller starts a cycle, and *)
(* the replies about action items and topics differ from cycle to cycle,   *)
(* hold no fenced block or hold a document that does not decode.           *)
(***************************************************************************)
NextOverwrite ==
    \/ Len(data.Transcript) < MaxTranscript /\ ProcessUtterance_Append("i1", CycleBatch)
    \/ ProcessUtterance_Marshal("i1")
    \/ ProcessUtterance_Write("i1", TRUE)
    \/ ProcessUtterance_Trigger("i1")
    \/ \E g \in DOMAIN cpc : updateAnalysis_Lock(g)
    \/ \E g \in DOMAIN cpc : updateAnalysis_Snapshot(g)
    \/ \E g \in DOMAIN cpc :
           updateAnalysis_generateSummary(g, Failure,
                                          GroundedReply(Fenced("{summary:s1}"), OneSupport),
                                          Failure)
    \/ \E g \in DOMAIN cpc :
           updateAnalysis_extractKeyPoints(g, Failure, GroundedFailure,
                                           Reply(Fenced("{key_points:k1}")))
    \/ \E g \in DOMAIN cpc,
          pl \in { Failure, Reply(<< "n", "o" >>), Reply(Fenced("{}")),
                   Reply(Fenced("{action_items:a1}")), Reply(Fenced("{action_items:a2}")) } :
           updateAnalysis_identifyActionItems(g, Failure, pl)
    \/ \E g \in DOMAIN cpc,
          pl \in { Failure, Reply(<< "n", "o" >>), Reply(Fenced("{topics:7}")),
                   Reply(Fenced("{topics:t1}")), Reply(Fenced("{topics:t2}")) } :
           updateAnalysis_extractTopics(g, Failure, pl)
    \/ \E g \in DOMAIN cpc :
           updateAnalysis_analyzeSentimentAndKeywords(g, Failure, Reply(<< "o", "k" >>))
    \/ \E g \in DOMAIN cpc : updateAnalysis_ClearAndLock(g)
    \/ \E g \in DOMAIN cpc : updateAnalysis_Update(g)
    \/ \E g \in DOMAIN cpc : updateAnalysis_Marshal(g)
    \/ \E g \in DOMAIN cpc : updateAnalysis_Write(g, TRUE)

SpecOverwrite == InitExtract /\ [][NextOverwrite]_vars

(***************************************************************************)
(* Cycles one after another with the replies drawn per task: summaries and *)
(* keyPoints are sets of [gr, pl] (the grounded and the plain reply), the  *)
(* other three are sets of plain replies; metas are the replies to the     *)
(* requests for a task prompt, batches the batches of the caller.          *)
(***************************************************************************)
NextCycles(batches, metas, summaries, keyPoints, actionItems, topics, sentiments) ==
    \/ \E segs \in batches :
           Len(data.Transcript) < MaxTranscript /\ ProcessUtterance_Append("i1", segs)
    \/ ProcessUtterance_Marshal("i1")
    \/ ProcessUtterance_Write("i1", TRUE)
    \/ ProcessUtterance_Trigger("i1")
    \/ \E g \in DOMAIN cpc : updateAnalysis_Lock(g)
    \/ \E g \in DOMAIN cpc : updateAnalysis_Snapshot(g)
    \/ \E g \in { h \in DOMAIN cpc : cpc[h] = "generateSummary" }, meta \in metas,
          r \in summaries :
           updateAnalysis_generateSummary(g, meta, r.gr, r.pl)
    \/ \E g \in { h \in DOMAIN cpc : cpc[h] = "extractKeyPoints" }, meta \in metas,
          r \in keyPoints :
           updateAnalysis_extractKeyPoints(g, meta, r.gr, r.pl)
    \/ \E g \in { h \in DOMAIN cpc : cpc[h] = "identifyActionItems" }, meta \in metas,
          pl \in actionItems :
           updateAnalysis_identifyActionItems(g, meta, pl)
    \/ \E g \in { h \in DOMAIN cpc : cpc[h] = "extractTopics" }, meta \in metas,
          pl \in topics :
           updateAnalysis_extractTopics(g, meta, pl)
    \/ \E g \in { h \in DOMAIN cpc : cpc[h] = "analyzeSentimentAndKeywords" },
          meta \in metas, pl \in sentiments :
           updateAnalysis_analyzeSentimentAndKeywords(g, meta, pl)
    \/ \E g \in DOMAIN cpc : updateAnalysis_ClearAndLock(g)
    \/ \E g \in DOMAIN cpc : updateAnalysis_Update(g)
    \/ \E g \in DOMAIN cpc : updateAnalysis_Marshal(g)
    \/ \E g \in DOMAIN cpc : updateAnalysis_Write(g, TRUE)

\* The calls of the first four tasks either succeed with a well-formed
\* document or fail; the call about the sentiment fails.
NextRetry ==
    NextCycles({ CycleBatch }, { Failure },
               { [ gr |-> GroundedReply(Fenced("{summary:s1}"), OneSupport), pl |-> Failure ],
                 [ gr |-> GroundedFailure, pl |-> Failure ] },
               { [ gr |-> GroundedReply(Fenced("{key_points:k2k3}"), OneSupport), pl |-> Failure ],
                 [ gr |-> GroundedFailure, pl |-> Reply(Fenced("{key_points:k1}")) ],
                 [ gr |-> GroundedFailure, pl |-> Failure ] },
               { Reply(Fenced("{action_items:a1}")), Failure },
               { Reply(Fenced("{topics:t1}")), Failure },
               { Failure })

SpecRetry == InitExtract /\ [][NextRetry]_vars

(***************************************************************************)
(* Custom instructions that pass the validation, and a provider whose      *)
(* reply to every request for a task prompt is a failure or white space.   *)
(***************************************************************************)
NoTaskPrompt == { Failure, Reply(<< SPACE >>), Reply(<< NEWLINE, SPACE >>) }

InitDirect ==
    InitWith({ c \in Configs : c.provider = "google" /\ c.customPrompt = Some(SafePrompt) },
             { 0 })

NextDirect ==
    NextCycles({ CycleBatch }, NoTaskPrompt,
               { [ gr |-> GroundedReply(Fenced("{summary:s1}"), OneSupport), pl |-> Failure ] },
               { [ gr |-> GroundedFailure, pl |-> Reply(Fenced("{key_points:k1}")) ] },
               { Reply(Fenced("{action_items:a1}")) },
               { Reply(Fenced("{topics:t1}")) },
               { Reply(Fenced("{sentiment:pos}")) })

SpecDirect == InitDirect /\ [][NextDirect]_vars

(***************************************************************************)
(* Texts of several words: fragments with spaces before, between (one or   *)
(* two) and after the words, and a fragment without text in front.         *)
(***************************************************************************)
WordBatches ==
    { << Segment(TRUE, "ann", TRUE, << "a", SPACE, "b" >>, FALSE, 0) >>,
      << Segment(TRUE, "bob", TRUE, << >>, FALSE, 0),
         Segment(TRUE, "bob", TRUE, << SPACE, "a", SPACE, SPACE, "b", SPACE >>, FALSE, 0) >>,
      << Segment(TRUE, "ann", TRUE, << "a" >>, FALSE, 0),
         Segment(TRUE, "ann", TRUE, << "b", NEWLINE, "c" >>, FALSE, 0) >>,
      << Segment(TRUE, "ann", TRUE, << >>, FALSE, 0) >> }

NextWords ==
    NextCycles(WordBatches, { Failure },
               { [ gr |-> GroundedReply(Fenced("{summary:s1}"), OneSupport), pl |-> Failure ] },
               { [ gr |-> GroundedReply(Fenced("{key_points:k2k3}"), OneSupport),
                   pl |-> Failure ] },
               { Reply(Fenced("{action_items:a1}")) },
               { Reply(Fenced("{topics:t1}")) },
               { Reply(Fenced("{sentiment:pos}")) })

SpecWords == InitExtract /\ [][NextWords]_vars

(***************************************************************************)
(* Documents without the key: the replies about the summary, the action    *)
(* items and the sentiment hold the task's document or the document {}.    *)
(***************************************************************************)
NextEmpty ==
    NextCycles({ CycleBatch }, { Failure },
               { [ gr |-> GroundedReply(Fenced("{summary:s1}"), OneSupport), pl |-> Failure ],
                 [ gr |-> GroundedReply(Fenced("{}"), OneSupport), pl |-> Failure ] },
               { [ gr |-> GroundedFailure, pl |-> Reply(Fenced("{key_points:k1}")) ] },
               { Reply(Fenced("{action_items:a1}")), Reply(Fenced("{}")) },
               { Reply(Fenced("{topics:t1}")) },
               { Reply(Fenced("{sentiment:pos}")), Reply(Fenced("{}")) })

SpecEmpty == InitExtract /\ [][NextEmpty]_vars

(***************************************************************************)
(* The windows: the agent holds a transcript of numbered entries (the text *)
(* of the i-th entry is the number i) whose length is one less than a      *)
(* window, the window or four more, and its last cycle started at time 0;  *)
(* it is time 0, or the interval has passed and the next append starts a   *)
(* cycle.                                                                  *)
(***************************************************************************)
NumberedBatch(i) == << Segment(TRUE, "ann", TRUE, Sprintd(i), TRUE, 0) >>

\* The record after the utterance NumberedBatch(i) alone, at time 0.
NumberedEntry(i) == AppendEntry(NewAnalysisData, Extract(NumberedBatch(i), 0), 0)
\* The record after n >= 1 utterances, the i-th being NumberedBatch(i), at
\* time 0: the n entries, the one speaker and one word for every entry.
Numbered(n) ==
    [ NumberedEntry(1) EXCEPT
        !.Transcript = [ i \in 1..n |-> NumberedEntry(i).Transcript[1] ],
        !.WordCount = n ]

WindowSizes ==
    { w + d : w \in { SentimentWindow, KeyPointsWindow, ActionItemsWindow, SummaryWindow },
              d \in { -1, 0, 4 } }

InitWindow ==
    \E n \in WindowSizes :
        /\ now \in { 0, AnalysisInterval + 1 }
        /\ crashed = FALSE
        /\ data = Numbered(n)
        /\ file = Some(Numbered(n))
        /\ saveFailed = FALSE
        /\ dataMutex = NoReaders
        /\ analysisMutex = Nil
        /\ lastAnalysis = 0
        /\ currentAnalysisSnapshot = Nil
        /\ config = [ provider |-> "google", available |-> TRUE, customPrompt |-> Nil ]
        /\ ipc = [i \in Ingesters |-> "idle"]
        /\ expected = [i \in Ingesters |-> Expectation(<< >>)]
        /\ ibuf = [i \in Ingesters |-> Nil]
        /\ ireturn = [i \in Ingesters |-> "none"]
        /\ spawned = [i \in Ingesters |-> FALSE]
        /\ cpc = << >>
        /\ transcriptSnapshot = << >>
        /\ cbuf = << >>
        /\ ran = << >>
        /\ rpc = [r \in Readers |-> [ pc |-> "idle", kept |-> Nil ]]
        /\ lockOrder = << >>

NextWindow ==
    \/ /\ Len(lockOrder) < MaxTranscript
       /\ ProcessUtterance_Append("i1", NumberedBatch(Len(data.Transcript) + 1))
    \/ ProcessUtterance_Marshal("i1")
    \/ ProcessUtterance_Write("i1", TRUE)
    \/ ProcessUtterance_Trigger("i1")
    \/ \E g \in DOMAIN cpc : updateAnalysis_Lock(g)
    \/ \E g \in DOMAIN cpc : updateAnalysis_Snapshot(g)
    \/ \E g \in DOMAIN cpc : updateAnalysis_generateSummary(g, Failure, GroundedFailure, Failure)
    \/ \E g \in DOMAIN cpc : updateAnalysis_extractKeyPoints(g, Failure, GroundedFailure, Failure)
    \/ \E g \in DOMAIN cpc : updateAnalysis_identifyActionItems(g, Failure, Failure)
    \/ \E g \in DOMAIN cpc : updateAnalysis_extractTopics(g, Failure, Failure)
    \/ \E g \in DOMAIN cpc : updateAnalysis_analyzeSentimentAndKeywords(g, Failure, Failure)
    \/ \E g \in DOMAIN cpc : updateAnalysis_ClearAndLock(g)
    \/ \E g \in DOMAIN cpc : updateAnalysis_Update(g)
    \/ \E g \in DOMAIN cpc : updateAnalysis_Marshal(g)
    \/ \E g \in DOMAIN cpc : updateAnalysis_Write(g, TRUE)

SpecWindow == InitWindow /\ [][NextWindow]_vars

(***************************************************************************)
(* Properties.                                                             *)
(***************************************************************************)
\* updateAnalysis, lines 227-250: the tasks in the order of the calls.
TaskOrder ==
    << "generateSummary", "extractKeyPoints", "identifyActionItems", "extractTopics",
       "analyzeSentimentAndKeywords" >>
TaskNames == { TaskOrder[k] : k \in 1..Len(TaskOrder) }
\* The window each task asks getRecentTranscript for.
WindowOf(task) ==
    CASE task = "generateSummary" -> SummaryWindow
      [] task = "extractKeyPoints" -> KeyPointsWindow
      [] task = "identifyActionItems" -> ActionItemsWindow
      [] task = "extractTopics" -> TopicsWindow
      [] task = "analyzeSentimentAndKeywords" -> SentimentWindow
\* A goroutine is inside its cycle from taking a.analysisMutex (line 206) to
\* releasing it (the deferred unlock).
InCycle(g) == cpc[g] \notin { "start", "done", "panic" }
\* No call of ProcessUtterance and no cycle is under way or pending.
Quiescent ==
    /\ \A i \in Ingesters : ipc[i] = "idle"
    /\ \A g \in DOMAIN cpc : cpc[g] = "done"

\* C1: at most one analysis cycle executes at any time: the spans of two
\* updateAnalysis goroutines from taking the snapshot to the final save never
\* overlap, however many triggers fired.
C1_AtMostOneCycle ==
    \A g \in DOMAIN cpc : \A h \in DOMAIN cpc : InCycle(g) /\ InCycle(h) => g = h
\* Two triggers fired; one cycle runs its tasks while the other waits.
C1_Witness ==
    \E g \in DOMAIN cpc : \E h \in DOMAIN cpc :
        g # h /\ cpc[g] \in TaskNames /\ cpc[h] = "start"

\* C2: every task of a cycle reads the transcript snapshot taken at the start
\* of that cycle (its last entries, as many as the task asks for), whatever
\* ProcessUtterance appended since.
C2_SnapshotIsolation ==
    \A g \in DOMAIN ran : \A k \in 1..Len(ran[g]) :
        ran[g][k].read = TailWindow(transcriptSnapshot[g], WindowOf(ran[g][k].task))
\* A cycle has run its five tasks and the transcript has grown since its
\* snapshot.
C2_Witness ==
    \E g \in DOMAIN ran :
        /\ Len(ran[g]) = 5
        /\ cpc[g] = "clear"
        /\ Len(data.Transcript) > Len(transcriptSnapshot[g])
        /\ Len(transcriptSnapshot[g]) > 0

\* C3: when a ProcessUtterance call that appended an entry returns, it has
\* started a cycle if and only if more than 5 minutes passed since the last
\* cycle start or the transcript length is a multiple of 20; the new
\* goroutine has not begun when the call returns.
C3_TriggerIff ==
    [][\A i \in Ingesters :
          (ipc[i] = "trigger" /\ ipc'[i] = "idle") =>
             LET due == now - lastAnalysis > 5 \/ Len(data.Transcript) % 20 = 0
                 started == DOMAIN cpc' \ DOMAIN cpc IN
             /\ spawned'[i] <=> due
             /\ due => Cardinality(started) = 1 /\ \A g \in started : cpc'[g] = "start"
             /\ ~due => started = {}
             /\ \A g \in DOMAIN cpc : cpc'[g] = cpc[g]]_vars
\* The 20th entry started a cycle although the last cycle start is recent.
C3_Witness ==
    /\ Len(data.Transcript) = 20
    /\ ireturn["i1"] = "appended"
    /\ spawned["i1"]
    /\ ipc["i1"] = "idle"
    /\ now - lastAnalysis <= 5
    /\ 20 \in DOMAIN cpc
    /\ cpc[20] = "start"

\* C4: a call of ProcessUtterance with a batch none of whose fragments has
\* text (the empty batch included) changes nothing of the record, persists
\* nothing, starts no cycle and returns at once.
C4_NoTextIsNoOp ==
    [][(ipc["i1"] = "idle" /\ expected'["i1"].noText) =>
          /\ data' = data
          /\ file' = file
          /\ ibuf' = ibuf
          /\ cpc' = cpc
          /\ dataMutex' = dataMutex
          /\ ipc'["i1"] = "idle"
          /\ ireturn'["i1"] \in { "empty_batch", "no_text" }]_vars
\* A batch of two fragments without text was handed in after an entry exists.
C4_Witness ==
    /\ ireturn["i1"] = "no_text"
    /\ expected["i1"].length = 2
    /\ expected["i1"].noText
    /\ Len(data.Transcript) > 0

\* C9: the transcript only grows at its end: in every step the transcript
\* before is a prefix of the transcript after, and its entries are in the
\* order in which the ProcessUtterance calls took the record lock.
C9_AppendOnly ==
    [][/\ IsPrefix(data.Transcript, data'.Transcript)
       /\ Len(data'.Transcript) = Len(lockOrder')
       /\ \A k \in 1..Len(lockOrder') : data'.Transcript[k].Speaker = lockOrder'[k]]_vars
\* Two callers appended, i2 first, and a cycle has run to its end.
C9_Witness ==
    /\ lockOrder = << "i2", "i1" >>
    /\ Len(data.Transcript) = 2
    /\ \E g \in DOMAIN cpc : cpc[g] = "done" /\ Len(ran[g]) = 5

\* C10: the speaker of an appended entry is the speaker of the last fragment
\* of the batch that names one, whether or not that fragment has text, and
\* "Participant" when no fragment names one.
C10_LastSpeaker ==
    ireturn["i1"] \in { "running", "appended" } =>
        Last(data.Transcript).Speaker = expected["i1"].speaker
\* A batch of two fragments, one of them without text, gave an entry of bob.
C10_Witness ==
    /\ ireturn["i1"] = "appended"
    /\ expected["i1"].length = 2
    /\ expected["i1"].speaker = "bob"
    /\ Last(data.Transcript).Speaker = "bob"
    /\ Last(data.Transcript).Text = << "a" >>

\* The speakers of a transcript, each once, in the order of first appearance.
RECURSIVE DistinctSpeakers(_)
DistinctSpeakers(transcript) ==
    IF transcript = << >>
    THEN << >>
    ELSE LET front == SubSeq(transcript, 1, Len(transcript) - 1)
             speaker == Last(transcript).Speaker
         IN  IF \E k \in 1..Len(front) : front[k].Speaker = speaker
             THEN DistinctSpeakers(front)
             ELSE Append(DistinctSpeakers(front), speaker)

\* C11: the participants list holds no duplicate and is the distinct speakers
\* of the transcript in the order of their first appearance; an entry of a
\* speaker already listed leaves it as it was.
C11_ParticipantsAreSpeakers ==
    /\ data.Participants = DistinctSpeakers(data.Transcript)
    /\ \A j, k \in 1..Len(data.Participants) :
           data.Participants[j] = data.Participants[k] => j = k
\* Two entries of bob were appended and bob is listed once.
C11_Witness ==
    /\ Len(data.Transcript) = 2
    /\ data.Transcript[1].Speaker = "bob"
    /\ data.Transcript[2].Speaker = "bob"
    /\ data.Participants = << "bob" >>

\* The documents that are well-formed and of the shape the task decodes.
GoodDocs(task) ==
    CASE task = "generateSummary" -> { "{summary:s1}", "{summary:s2}" }
      [] task = "extractKeyPoints" -> { "{key_points:k1}", "{key_points:k2k3}" }
      [] task = "identifyActionItems" -> { "{action_items:a1}", "{action_items:a2}" }
      [] task = "extractTopics" -> { "{topics:t1}", "{topics:t2}" }
      [] task = "analyzeSentimentAndKeywords" -> { "{sentiment:pos}", "{sentiment:neg}" }
\* The call succeeded and its reply holds the fenced document doc.
Returned(call, doc) ==
    /\ ~Deref(call.reply).err
    /\ Deref(call.reply).text = Fenced(doc)
\* Every analysis call the task issued succeeded with a well-formed document
\* of its shape, and it issued one.
AllWellFormed(entry) ==
    /\ AnalysisCalls(entry) # << >>
    /\ \A j \in 1..Len(AnalysisCalls(entry)) :
           \E doc \in GoodDocs(entry.task) : Returned(AnalysisCalls(entry)[j], doc)
\* The fields of the task hold what the document says.
Holds(d, task, doc) ==
    CASE task = "generateSummary" -> d.Summary = JsonDocs[doc]["summary"].v
      [] task = "extractKeyPoints" -> d.KeyPoints = JsonDocs[doc]["key_points"].v
      [] task = "identifyActionItems" -> d.ActionItems = JsonDocs[doc]["action_items"].v
      [] task = "extractTopics" -> d.Topics = JsonDocs[doc]["topics"].v
      [] task = "analyzeSentimentAndKeywords" ->
           /\ d.Sentiment = JsonDocs[doc]["sentiment"].v
           /\ d.Keywords = JsonDocs[doc]["keywords"].v

\* C12: a cycle in which every task's LLM call succeeds with a well-formed
\* fenced JSON block of the task's shape runs to its end, and then summary,
\* key_points, action_items, topics, sentiment and keywords are the values of
\* the replies, while transcript, participants and word count are what
\* ingestion produced.
C12_FixturesCommitted ==
    \A g \in DOMAIN ran :
        (\A k \in 1..Len(ran[g]) : AllWellFormed(ran[g][k])) =>
            /\ cpc[g] # "panic"
            /\ (cpc[g] = "done" /\ Len(ran[g]) = 5) =>
                  /\ \A k \in 1..5 :
                        \E doc \in GoodDocs(ran[g][k].task) :
                            /\ Returned(Last(AnalysisCalls(ran[g][k])), doc)
                            /\ Holds(data, ran[g][k].task, doc)
                  /\ data.Transcript = transcriptSnapshot[g]
                  /\ data.Participants = DistinctSpeakers(transcriptSnapshot[g])
                  /\ data.WordCount = 1

\* The text holds no opening marker that a closing fence follows.
NoFencedBlock(text) ==
    ~\E i \in 0..Len(text) : \E j \in 0..Len(text) :
        /\ HasAt(text, startMarker, i)
        /\ j >= i + Len(startMarker)
        /\ HasAt(text, endMarker, j)
\* The step is the k-th task of goroutine g, and the task has handled the
\* reply of its last analysis call.
TaskStep(g, k) ==
    /\ g \in DOMAIN ran
    /\ Len(ran[g]) = k - 1
    /\ Len(ran'[g]) = k
    /\ AnalysisCalls(ran'[g][k]) # << >>
\* What follows the k-th task in updateAnalysis.
AfterTask(k) == IF k < 5 THEN TaskOrder[k + 1] ELSE "clear"

\* C13: a task whose LLM reply holds no fenced json block (no opening marker,
\* or no closing fence after it) reports no error and leaves the record as it
\* was, and the cycle goes on to the next task.
C13_SoftParseMiss ==
    [][\A g \in DOMAIN ran : \A k \in 1..5 :
          LET reply == Deref(Last(AnalysisCalls(ran'[g][k])).reply) IN
          (TaskStep(g, k) /\ ~reply.err /\ NoFencedBlock(reply.text)) =>
              /\ ~ran'[g][k].err
              /\ data' = data
              /\ cpc'[g] = AfterTask(k)
              /\ ~crashed']_vars
\* A cycle ended in which the summary's reply had no marker and the reply
\* about the topics an unclosed block: no topic was set, and the task after
\* it set the sentiment.
C13_Witness ==
    \E g \in DOMAIN ran :
        /\ cpc[g] = "done"
        /\ Len(ran[g]) = 5
        /\ AnalysisCalls(ran[g][1]) # << >> /\ AnalysisCalls(ran[g][4]) # << >>
        /\ Deref(Last(AnalysisCalls(ran[g][1])).reply).text = << "n", "o" >>
        /\ Deref(Last(AnalysisCalls(ran[g][4])).reply).text = Unclosed("{topics:t1}")
        /\ ~ran[g][1].err /\ ~ran[g][4].err
        /\ data.Summary = << >> /\ data.Topics = << >>
        /\ data.Sentiment = << "p", "o", "s" >>

\* The documents that do not decode as the struct of the task: a member of
\* the wrong JSON type, or text that is no JSON document.
BadDocs(task) ==
    CASE task = "generateSummary" -> { "{summary:7}" }
      [] task = "extractKeyPoints" -> { "{key_points:7}" }
      [] task = "identifyActionItems" -> { "{action_items:7}" }
      [] task = "extractTopics" -> { "{topics:7}" }
      [] task = "analyzeSentimentAndKeywords" -> { "{sentiment:7}", "{sentiment:" }

\* C14: a task whose reply holds a fenced block that does not decode as the
\* task's shape commits nothing, and the cycle goes on: the task after it (after
\* the last task, the final update and save) is what the cycle does next.
C14_HardParseError ==
    [][\A g \in DOMAIN ran : \A k \in 1..5 :
          LET call == Last(AnalysisCalls(ran'[g][k])) IN
          (TaskStep(g, k) /\ \E doc \in BadDocs(ran'[g][k].task) : Returned(call, doc)) =>
              /\ data' = data
              /\ cpc'[g] = AfterTask(k)
              /\ analysisMutex' = analysisMutex
              /\ ~crashed']_vars
\* A cycle ended and saved the record: the block about the action items had a
\* number for the list and the one about the sentiment was cut short; neither
\* field was set, and the topics, asked for in between, were.
C14_Witness ==
    \E g \in DOMAIN ran :
        /\ cpc[g] = "done"
        /\ Len(ran[g]) = 5
        /\ AnalysisCalls(ran[g][3]) # << >> /\ AnalysisCalls(ran[g][5]) # << >>
        /\ Returned(Last(AnalysisCalls(ran[g][3])), "{action_items:7}")
        /\ Returned(Last(AnalysisCalls(ran[g][5])), "{sentiment:")
        /\ ran[g][3].err /\ ran[g][5].err
        /\ data.ActionItems = << >> /\ data.Sentiment = << >>
        /\ data.Topics = << "t1" >>
        /\ file = Some(data)

\* C15: extractJSONFromResponse gives the trimmed text between the first json
\* marker and the first fence after it, whatever stands before the marker and
\* after the closing fence; the task decodes that text and no other.
C15_FirstFencedBlock ==
    \A g \in DOMAIN ran : \A c \in ExtractCases :
        (Len(ran[g]) >= 3 /\ Deref(Last(ran[g][3].calls).reply).text = c.text) =>
            /\ extractJSONFromResponse(c.text) = c.inner
            /\ data.ActionItems =
                  IF c.inner = << "{action_items:a1}" >> THEN << "a1" >> ELSE << >>
            /\ ran[g][3].err <=> (c.inner = << "a", SPACE, "b" >>)
\* The reply had prose before the marker, white space around the document and
\* a second block after the closing fence: the first document was committed.
C15_Witness ==
    \E g \in DOMAIN ran :
        /\ Len(ran[g]) >= 3
        /\ Deref(Last(ran[g][3].calls).reply).text =
              << "o", "k", SPACE >> \o startMarker \o << NEWLINE, SPACE >>
                 \o << "{action_items:a1}" >> \o << SPACE >> \o endMarker
                 \o << SPACE >> \o startMarker \o << "{action_items:a2}" >> \o endMarker
        /\ data.ActionItems = << "a1" >>

\* The k-th task of g has just issued a grounded call, which failed.
GroundedCallFailed(g, k) ==
    /\ TaskStep(g, k)
    /\ AnalysisCalls(ran'[g][k])[1].op = "CallWithGrounding"
    /\ Deref(AnalysisCalls(ran'[g][k])[1].reply).err

\* C16: with the grounding-capable provider, a Summary task whose grounded
\* call fails issues no plain call and leaves summary and grounded_summary as
\* they were; a KeyPoints task whose grounded call fails issues one plain call
\* and commits the key points of its reply, if the reply holds a well-formed
\* document.
C16_GroundedCallPolicy ==
    [][\A g \in DOMAIN ran :
          /\ GroundedCallFailed(g, 1) =>
                /\ Len(AnalysisCalls(ran'[g][1])) = 1
                /\ data'.Summary = data.Summary
                /\ data'.GroundedSummary = data.GroundedSummary
          /\ GroundedCallFailed(g, 2) =>
                /\ Len(AnalysisCalls(ran'[g][2])) = 2
                /\ AnalysisCalls(ran'[g][2])[2].op = "Call"
                /\ \A doc \in GoodDocs("extractKeyPoints") :
                      Returned(AnalysisCalls(ran'[g][2])[2], doc) =>
                          Holds(data', "extractKeyPoints", doc)]_vars

\* C17: while the provider is absent or reports that it is not available, no
\* task issues a Call or a CallWithGrounding (the grounded calls of Summary
\* and KeyPoints and the request for a task prompt included): the task is
\* skipped.
C17_NoCallWhileUnavailable ==
    (config.provider = "none" \/ ~config.available) =>
        \A g \in DOMAIN ran :
            /\ \A k \in 1..Len(ran[g]) : ran[g][k].calls = << >>
            /\ cpc[g] # "panic"

\* C18: a save that fails changes nothing of the record and ends nothing.  In
\* ProcessUtterance the appended entry, the participants and the counters stay
\* and the call goes on to the trigger condition, which starts a cycle exactly
\* when it holds; at the end of a cycle the committed outputs stay and the
\* cycle returns.  (A write has failed when the file is not the buffer that
\* was to be written.)
C18_FailedSaveKeepsRecord ==
    [][/\ \A i \in Ingesters :
             (ipc[i] = "write" /\ ipc'[i] # "write" /\ file' # ibuf[i]) =>
                 /\ data' = data
                 /\ Len(data.Transcript) >= 1 /\ data.WordCount >= 1
                 /\ ipc'[i] = "trigger"
                 /\ ~crashed'
       /\ \A i \in Ingesters :
             (saveFailed /\ ipc[i] = "trigger" /\ ipc'[i] # "trigger") =>
                 /\ spawned'[i] <=> (now - lastAnalysis > 5 \/ Len(data.Transcript) % 20 = 0)
                 /\ ireturn'[i] = "appended"
                 /\ data' = data
       /\ \A g \in DOMAIN cpc :
             (cpc[g] = "write" /\ cpc'[g] # "write" /\ file' # cbuf[g]) =>
                 /\ data' = data
                 /\ cpc'[g] = "done"
                 /\ analysisMutex' = Nil
                 /\ ~crashed']_vars
\* Every save has failed (there is no file): the entries of both callers are
\* in the record, the first call started a cycle, the cycle ran to its end
\* and the summary it committed is in the record.
C18_Witness ==
    /\ saveFailed /\ file = Nil
    /\ \A i \in Ingesters : ireturn[i] = "appended"
    /\ Len(data.Transcript) = 2 /\ Len(data.Participants) = 2 /\ data.WordCount = 2
    /\ \E g \in DOMAIN cpc : cpc[g] = "done" /\ Len(ran[g]) = 5
    /\ data.Summary = << "s", "1" >>

\* C19: the value GetAnalysis returns is a deep copy: no write a caller makes
\* through it (here into its key points, or into the contents of its
\* grounded_summary) changes the agent's record.
C19_DeepCopy ==
    [][\A r \in Readers :
          (~IsNil(rpc[r].kept) /\ IsNil(rpc'[r].kept) /\ rpc'[r].pc = rpc[r].pc) =>
              data' = data]_vars

\* The analysis type each task names to buildAnalysisPrompt.
AnalysisTypeOf(task) ==
    CASE task = "generateSummary" -> "summary"
      [] task = "extractKeyPoints" -> "key_points"
      [] task = "identifyActionItems" -> "action_items"
      [] task = "extractTopics" -> "topics"
      [] task = "analyzeSentimentAndKeywords" -> "sentiment_keywords"

\* C20: with custom instructions that are not empty and fail the validation
\* (more than 5000 characters, or a denylisted substring in any letter case),
\* the prompt of every task is the prompt built when no custom instructions are
\* set, no request for a task prompt is made, and the prompt building is no
\* error of the task.
C20_RejectedInstructionsGiveDefault ==
    config.customPrompt \in { Some(UnsafePrompt), Some(LongPrompt) } =>
        \A g \in DOMAIN ran : \A k \in 1..Len(ran[g]) :
            LET analysisType == AnalysisTypeOf(ran[g][k].task)
                transcript == formatTranscriptForLLM(ran[g][k].read)
                b == buildAnalysisPrompt(analysisType, transcript, Failure) IN
            /\ b.prompt = Prompt("default", analysisType, << >>, transcript)
            /\ ~b.panic
            /\ AnalysisCalls(ran[g][k]) = ran[g][k].calls

\* The grounding metadata of the reply the summary task of g has handled, and
\* the text with citations it has stored.
RepliedMetadata(g) == Deref(Deref(AnalysisCalls(ran[g][1])[1].reply).metadata)
Cited == Deref(data.GroundedSummary).TextWithCitations

\* C21: addCitations returns the text as it is for absent metadata and for
\* metadata without supports; a support whose end index is greater than the
\* length of the text is never applied, also not after insertions (the result
\* is the one for the metadata without these supports), and where it is the
\* only support the result is the text.
C21_SupportBehindTextSkipped ==
    /\ addCitations(Letters, Nil) = [ panic |-> FALSE, text |-> Letters ]
    /\ \A g \in DOMAIN ran :
          Len(ran[g]) >= 1 =>
              LET supports == RepliedMetadata(g).GroundingSupports
                  inText == SelectSeq(supports, LAMBDA u : u.EndIndex <= Len(Letters)) IN
              /\ supports = << >> => ~IsNil(data.GroundedSummary) /\ Cited = Letters
              /\ inText = << >> => ~IsNil(data.GroundedSummary) /\ Cited = Letters
              /\ ~IsNil(data.GroundedSummary) =>
                    Cited = addCitations(Letters,
                                         Some([ RepliedMetadata(g) EXCEPT
                                                  !.GroundingSupports = inText ])).text
\* Of a support at 10 and one at 21, given in this order, the first was
\* applied and the second was not, although the text had grown to 28.
C21_Witness ==
    \E g \in DOMAIN ran :
        /\ Len(ran[g]) >= 1
        /\ RepliedMetadata(g).GroundingSupports =
              << [ EndIndex |-> 10, GroundingChunkIndices |-> << 0 >> ],
                 [ EndIndex |-> 21, GroundingChunkIndices |-> << 1 >> ] >>
        /\ ~IsNil(data.GroundedSummary)
        /\ Cited = SubSeq(Letters, 1, 10) \o << SPACE, "[", "1", "]", "(", "u1", ")" >>
                      \o SubSeq(Letters, 11, 20)

\* The characters of the text, the text of a string without its markers, and
\* the places of a string where a marker starts.
IsLetter(c) == \E k \in 1..Len(Letters) : Letters[k] = c
WithoutMarkers(str) == SelectSeq(str, IsLetter)
MarkerStarts(str) ==
    { p \in 1..Len(str) : str[p] = SPACE /\ (p = 1 \/ str[p - 1] # ",") }
\* The marker of a support, and the supports of a list that have one in a
\* text of the length of Letters.
MarkerOf(support, chunks) ==
    LET known == SelectSeq(support.GroundingChunkIndices,
                           LAMBDA i : i >= 0 /\ i < Len(chunks))
        link(i) == << "[" >> \o Sprintd(i + 1) \o << "]", "(", chunks[i + 1], ")" >> IN
    IF known = << >> THEN << >>
    ELSE << SPACE >> \o Join([ k \in 1..Len(known) |-> link(known[k]) ], << ",", SPACE >>)
Applied(metadata) ==
    { k \in 1..Len(metadata.GroundingSupports) :
        /\ metadata.GroundingSupports[k].EndIndex >= 0
        /\ metadata.GroundingSupports[k].EndIndex <= Len(Letters)
        /\ MarkerOf(metadata.GroundingSupports[k], metadata.GroundingChunks) # << >> }

\* C22: in the text addCitations returns, every applied support has its
\* marker at its offset in the original text: without the markers the result
\* is the input, each applied support's marker stands after exactly the first
\* EndIndex characters of the input, and there is no other marker; this for
\* every order of the supports.
C22_MarkersAtOriginalOffsets ==
    \A g \in DOMAIN ran :
        Len(ran[g]) >= 1 /\ ~IsNil(data.GroundedSummary) =>
            LET metadata == RepliedMetadata(g)
                before(p) == Len(WithoutMarkers(SubSeq(Cited, 1, p - 1))) IN
            /\ WithoutMarkers(Cited) = Letters
            /\ Cardinality(MarkerStarts(Cited)) = Cardinality(Applied(metadata))
            /\ \A p \in MarkerStarts(Cited) :
                  \E k \in Applied(metadata) :
                      before(p) = metadata.GroundingSupports[k].EndIndex
            /\ \A k \in Applied(metadata) :
                  LET marker == MarkerOf(metadata.GroundingSupports[k],
                                         metadata.GroundingChunks) IN
                  \E p \in MarkerStarts(Cited) :
                      /\ before(p) = metadata.GroundingSupports[k].EndIndex
                      /\ p + Len(marker) - 1 <= Len(Cited)
                      /\ SubSeq(Cited, p, p + Len(marker) - 1) = marker
\* The supports came in ascending order, and each marker is where its
\* support ends.
C22_Witness ==
    \E g \in DOMAIN ran :
        /\ Len(ran[g]) >= 1
        /\ RepliedMetadata(g).GroundingSupports =
              << [ EndIndex |-> 10, GroundingChunkIndices |-> << 0, 1 >> ],
                 [ EndIndex |-> 20, GroundingChunkIndices |-> << 2, 0 >> ] >>
        /\ ~IsNil(data.GroundedSummary)
        /\ Cited = SubSeq(Letters, 1, 10)
                      \o << SPACE, "[", "1", "]", "(", "u1", ")", ",",
                            SPACE, "[", "2", "]", "(", "u2", ")" >>
                      \o SubSeq(Letters, 11, 20)
                      \o << SPACE, "[", "1", "]", "(", "u1", ")" >>

\* The supports are two, one ending at 10 and one at 20, each with one chunk of
\* the list and not the same one; at is the place of each in the list.
TwoSupports(metadata, at) ==
    /\ Len(metadata.GroundingSupports) = 2
    /\ at \in [ { 10, 20 } -> { 1, 2 } ] /\ at[10] # at[20]
    /\ \A e \in { 10, 20 } :
          /\ metadata.GroundingSupports[at[e]].EndIndex = e
          /\ Len(metadata.GroundingSupports[at[e]].GroundingChunkIndices) = 1
          /\ metadata.GroundingSupports[at[e]].GroundingChunkIndices[1] \in
                0..(Len(metadata.GroundingChunks) - 1)
    /\ metadata.GroundingSupports[1].GroundingChunkIndices #
          metadata.GroundingSupports[2].GroundingChunkIndices
\* The marker of the support ending at e starts at place p of the result,
\* after e characters of the text.
MarkerAt(metadata, at, e, p) ==
    LET marker == MarkerOf(metadata.GroundingSupports[at[e]], metadata.GroundingChunks) IN
    /\ p \in MarkerStarts(Cited)
    /\ p + Len(marker) - 1 <= Len(Cited)
    /\ SubSeq(Cited, p, p + Len(marker) - 1) = marker
    /\ Len(WithoutMarkers(SubSeq(Cited, 1, p - 1))) = e

\* C23: with two supports ending at 10 and at 20, each with its own chunk of
\* the list, on a text of 20 characters, addCitations returns a text with both
\* markers, each after as many characters of the text as its support's end
\* index says, so that the marker for 10 stands before the marker for 20.
C23_BothMarkersInTextOrder ==
    \A g \in DOMAIN ran :
        Len(ran[g]) >= 1 =>
            \A at \in [ { 10, 20 } -> { 1, 2 } ] :
                TwoSupports(RepliedMetadata(g), at) =>
                    /\ ~IsNil(data.GroundedSummary)
                    /\ \E p10, p20 \in 1..Len(Cited) :
                          /\ MarkerAt(RepliedMetadata(g), at, 10, p10)
                          /\ MarkerAt(RepliedMetadata(g), at, 20, p20)
                          /\ p10 < p20
\* The support ending at 20 came first in the list.
C23_Witness ==
    \E g \in DOMAIN ran :
        /\ Len(ran[g]) >= 1
        /\ RepliedMetadata(g).GroundingSupports =
              << [ EndIndex |-> 20, GroundingChunkIndices |-> << 0 >> ],
                 [ EndIndex |-> 10, GroundingChunkIndices |-> << 1 >> ] >>
        /\ ~IsNil(data.GroundedSummary)
        /\ Cited = SubSeq(Letters, 1, 10) \o << SPACE, "[", "2", "]", "(", "u2", ")" >>
                      \o SubSeq(Letters, 11, 20) \o << SPACE, "[", "1", "]", "(", "u1", ")" >>
\* C23 as stated: the marker for 20 stands before the marker for 10.
C23_MarkerFor20First ==
    \A g \in DOMAIN ran :
        Len(ran[g]) >= 1 =>
            \A at \in [ { 10, 20 } -> { 1, 2 } ] :
                TwoSupports(RepliedMetadata(g), at) =>
                    /\ ~IsNil(data.GroundedSummary)
                    /\ \E p10, p20 \in 1..Len(Cited) :
                          /\ MarkerAt(RepliedMetadata(g), at, 10, p10)
                          /\ MarkerAt(RepliedMetadata(g), at, 20, p20)
                          /\ p20 < p10

\* C24: grounding data out of range does not make addCitations fail: the call
\* returns, a support whose end index is negative or greater than the length
\* of the text has no marker in the result, and of the other supports each is
\* cited with those of its chunk indices that are in the chunk list.
C24_OutOfRangeNonFatal ==
    \A g \in DOMAIN ran :
        Len(ran[g]) >= 1 =>
            LET metadata == RepliedMetadata(g) IN
            /\ ~crashed
            /\ ~IsNil(data.GroundedSummary)
            /\ Cardinality(MarkerStarts(Cited)) = Cardinality(Applied(metadata))
            /\ \A k \in Applied(metadata) :
                  LET marker == MarkerOf(metadata.GroundingSupports[k],
                                         metadata.GroundingChunks) IN
                  \E p \in MarkerStarts(Cited) :
                      /\ p + Len(marker) - 1 <= Len(Cited)
                      /\ SubSeq(Cited, p, p + Len(marker) - 1) = marker

\* For the third and the fourth task, the list of the record the task
\* assigns, the documents that decode to its struct, and the list a document
\* gives: without the key the list is empty.
ListOf(d, k) == IF k = 3 THEN d.ActionItems ELSE d.Topics
ListDocs(k) == GoodDocs(TaskOrder[k]) \cup { "{}" }
DecodedList(doc, k) ==
    LET key == IF k = 3 THEN "action_items" ELSE "topics" IN
    IF key \in DOMAIN JsonDocs[doc] THEN JsonDocs[doc][key].v ELSE << >>

\* C25: a task that decodes its reply replaces its fields of the record: the
\* step of identifyActionItems (extractTopics) whose reply holds a well-formed
\* document leaves as action items (topics) exactly the list of that
\* document, whatever an earlier cycle has left, no other step changes them,
\* and where two cycles have decoded a reply the record holds the later
\* cycle's list.
C25_CommitReplaces ==
    /\ [][\A k \in { 3, 4 } :
            /\ \A g \in DOMAIN ran :
                  TaskStep(g, k) =>
                      LET call == Last(AnalysisCalls(ran'[g][k])) IN
                      IF \E doc \in ListDocs(k) : Returned(call, doc)
                      THEN \A doc \in ListDocs(k) :
                               Returned(call, doc) => ListOf(data', k) = DecodedList(doc, k)
                      ELSE ListOf(data', k) = ListOf(data, k)
            /\ (~\E g \in DOMAIN ran : TaskStep(g, k)) => ListOf(data', k) = ListOf(data, k)]_vars
    /\ [](\A k \in { 3, 4 } : \A g, h \in DOMAIN ran :
            /\ g < h /\ Len(ran[g]) >= k /\ Len(ran[h]) >= k
            /\ ~\E j \in DOMAIN ran : j > h /\ Len(ran[j]) >= k
            /\ AnalysisCalls(ran[h][k]) # << >>
            => \A doc \in ListDocs(k) :
                   Returned(Last(AnalysisCalls(ran[h][k])), doc) =>
                       ListOf(data, k) = DecodedList(doc, k))
\* The second cycle has decoded other action items and other topics than the
\* first, and the record holds the second cycle's.
C25_Witness ==
    /\ DOMAIN ran = { 1, 2 }
    /\ Len(ran[1]) = 5 /\ Len(ran[2]) >= 4
    /\ Returned(Last(AnalysisCalls(ran[1][3])), "{action_items:a1}")
    /\ Returned(Last(AnalysisCalls(ran[1][4])), "{topics:t2}")
    /\ Returned(Last(AnalysisCalls(ran[2][3])), "{action_items:a2}")
    /\ Returned(Last(AnalysisCalls(ran[2][4])), "{topics:t1}")
    /\ data.ActionItems = << "a2" >>
    /\ data.Topics = << "t1" >>

\* C26: a record constructed for an agentID for which an earlier construction
\* has saved a file is seeded from that file: it holds the transcript and the
\* outputs the file holds.
C26_SeededFromFile ==
    [][(\E sameSecond \in BOOLEAN : NewAnalystAgent(sameSecond)) /\ ~IsNil(file) =>
          /\ data'.Transcript = Deref(file).Transcript
          /\ data'.Summary = Deref(file).Summary
          /\ data'.KeyPoints = Deref(file).KeyPoints
          /\ data'.ActionItems = Deref(file).ActionItems
          /\ data'.Topics = Deref(file).Topics]_vars

\* Process p holds the mutex m for writing.
WriteLockedBy(m, p) == ToString(m.writer) = ToString(Some(p))

\* C27: a cycle does not hold a.dataMutex while it is at its LLM calls: a call
\* of ProcessUtterance can then take the lock as soon as no other caller holds
\* it, and each of its later steps (marshal, write, trigger and return) can be
\* taken at once; the only steps in which a cycle takes the lock are the copy
\* of the snapshot, which changes nothing of the record, and the step before
\* the one that sets LastUpdated and nothing else.
C27_NoRecordLockDuringCalls ==
    /\ [](\A g \in DOMAIN cpc :
            cpc[g] \in TaskNames /\ ~crashed =>
                /\ ~WriteLockedBy(dataMutex, g) /\ dataMutex.readers \subseteq Readers
                /\ \A i \in Ingesters :
                      /\ (ipc[i] = "idle" /\ dataMutex.readers = {}
                             /\ ~\E j \in Ingesters : WriteLockedBy(dataMutex, j))
                          => \A segs \in Batches(i) : ENABLED ProcessUtterance_Append(i, segs)
                      /\ ipc[i] = "marshal" => ENABLED ProcessUtterance_Marshal(i)
                      /\ ipc[i] = "write" => ENABLED ProcessUtterance_Write(i, TRUE)
                      /\ ipc[i] = "trigger" => ENABLED ProcessUtterance_Trigger(i))
    /\ [][\A g \in DOMAIN cpc :
            /\ (WriteLockedBy(dataMutex', g) /\ ~WriteLockedBy(dataMutex, g)) =>
                  cpc[g] = "clear" /\ cpc'[g] = "update" /\ data' = data
            /\ WriteLockedBy(dataMutex, g) =>
                  /\ cpc[g] = "update" /\ cpc'[g] = "marshal"
                  /\ IsNil(dataMutex'.writer)
                  /\ data' = [data EXCEPT !.LastUpdated = now]
            /\ dataMutex'.readers \subseteq Readers
            /\ (cpc[g] = "snapshot" /\ cpc'[g] # "snapshot") =>
                  /\ IsNil(dataMutex.writer)
                  /\ data' = data
                  /\ transcriptSnapshot'[g] = data.Transcript]_vars
\* The first cycle is at an LLM call, and the call of ProcessUtterance that
\* began after the cycle's snapshot has appended its entry and written the
\* file.
C27_Witness ==
    /\ 1 \in DOMAIN cpc /\ cpc[1] \in TaskNames
    /\ Len(transcriptSnapshot[1]) = 1
    /\ Len(data.Transcript) = 2
    /\ \E i \in Ingesters : ipc[i] = "trigger"
    /\ ~IsNil(file) /\ Len(Deref(file).Transcript) = 2
    /\ data.LastUpdated = 0 /\ Len(ran[1]) >= 1

\* C28: the step in which a cycle takes its snapshot makes the snapshot the
\* whole transcript of that moment, the entries appended since an earlier cycle's snapshot among them; the
\* snapshot is not changed afterwards, and the snapshot of an earlier cycle is
\* the beginning of the snapshot of a later one.
C28_SnapshotIsWholeTranscript ==
    /\ [][\A g \in DOMAIN cpc :
            /\ (cpc[g] = "snapshot" /\ cpc'[g] # "snapshot") =>
                  /\ transcriptSnapshot'[g] = data.Transcript
                  /\ \A h \in DOMAIN cpc :
                        h < g =>
                            \A n \in (Len(transcriptSnapshot[h]) + 1)..Len(data.Transcript) :
                                transcriptSnapshot'[g][n] = data.Transcript[n]
            /\ cpc[g] \notin { "start", "snapshot" } =>
                  transcriptSnapshot'[g] = transcriptSnapshot[g]]_vars
    /\ [](\A g, h \in DOMAIN cpc :
            h < g /\ cpc[g] \notin { "start", "snapshot" } =>
                /\ Len(transcriptSnapshot[h]) <= Len(transcriptSnapshot[g])
                /\ transcriptSnapshot[h] =
                      SubSeq(transcriptSnapshot[g], 1, Len(transcriptSnapshot[h])))
\* The first cycle's snapshot held one entry and the cycle has run its tasks;
\* the second cycle's snapshot holds also the entry appended after the first
\* cycle's snapshot.
C28_Witness ==
    \E g, h \in DOMAIN cpc :
        /\ g < h
        /\ Len(ran[g]) = 5 /\ cpc[g] = "done"
        /\ cpc[h] \in TaskNames
        /\ Len(transcriptSnapshot[h]) = Len(transcriptSnapshot[g]) + 1
        /\ transcriptSnapshot[h] = data.Transcript
        /\ Last(transcriptSnapshot[h]).Timestamp < data.LastUpdated

\* Goroutine g has been started and has returned from updateAnalysis.
Finished(g) == g \in DOMAIN cpc /\ cpc[g] = "done"

\* Every goroutine that was started runs its cycle to the end, unless the
\* process has ended by a panic.
CyclesCompleteUnlessCrashed ==
    \A g \in 1..MaxTranscript :
        [](g \in DOMAIN cpc => <>(crashed \/ Finished(g)))

\* C29: triggers are not coalesced: every updateAnalysis goroutine that was
\* started eventually has run its cycle to the end, with the five tasks run on
\* the snapshot it took, provided the LLM calls return.
C29_EveryTriggerCompletes ==
    \A g \in 1..MaxTranscript :
        [](g \in DOMAIN cpc =>
             <>(Finished(g) /\ (transcriptSnapshot[g] # << >> => Len(ran[g]) = 5)))

\* The order of the locks: a.analysisMutex is taken and released only by
\* steps of a cycle, it is taken by a goroutine that holds no lock, and
\* whoever takes a.dataMutex for writing or reading finds it free of writers.
\* Every call of ProcessUtterance and of GetAnalysis and every cycle comes to
\* its end, unless the process has ended by a panic.
OperationsFinishUnlessCrashed ==
    /\ [][/\ (analysisMutex' # analysisMutex) =>
                /\ ipc' = ipc /\ rpc' = rpc
                /\ (IsNil(analysisMutex) =>
                       \A g \in DOMAIN cpc : ~WriteLockedBy(dataMutex, g))
          /\ (~IsNil(dataMutex'.writer) /\ dataMutex' # dataMutex) => CanLock
          /\ (dataMutex'.readers # dataMutex.readers) => IsNil(dataMutex.writer)]_vars
    /\ \A i \in Ingesters : [](ipc[i] # "idle" => <>(crashed \/ ipc[i] = "idle"))
    /\ \A r \in Readers : [](rpc[r].pc # "idle" => <>(crashed \/ rpc[r].pc = "idle"))
    /\ \A g \in 1..MaxTranscript : [](g \in DOMAIN cpc => <>(crashed \/ Finished(g)))

\* C30: no deadlock: every call of ProcessUtterance, every call of
\* GetAnalysis and every cycle that has begun comes to its end, provided the
\* LLM calls and the writes of the file return.
C30_EveryOperationFinishes ==
    /\ \A i \in Ingesters : [](ipc[i] # "idle" => <>(ipc[i] = "idle"))
    /\ \A r \in Readers : [](rpc[r].pc # "idle" => <>(rpc[r].pc = "idle"))
    /\ \A g \in 1..MaxTranscript : [](g \in DOMAIN cpc => <>Finished(g))

\* The number of analysis calls of the kind op that the task issued.
Issued(entry, op) == Len(SelectSeq(AnalysisCalls(entry), LAMBDA c : c.op = op))
\* The last analysis call of the k-th task of g, just run, failed.
LastCallFailed(g, k) ==
    /\ TaskStep(g, k)
    /\ Deref(Last(AnalysisCalls(ran'[g][k])).reply).err

\* C31: no LLM call is issued again inside a cycle: every task issues its
\* plain completion call at most once and its grounded call at most once, the
\* grounded one first, and a task whose call failed reports the error, leaves
\* the record as it was and is followed by the next task.
C31_NoRetry ==
    /\ [](\A g \in DOMAIN ran : \A k \in 1..Len(ran[g]) :
             /\ Issued(ran[g][k], "Call") <= 1
             /\ Issued(ran[g][k], "CallWithGrounding") <= 1
             /\ Len(AnalysisCalls(ran[g][k])) = 2 =>
                    /\ AnalysisCalls(ran[g][k])[1].op = "CallWithGrounding"
                    /\ Deref(AnalysisCalls(ran[g][k])[1].reply).err)
    /\ [][\A g \in DOMAIN cpc : \A k \in 1..5 :
             LastCallFailed(g, k) =>
                 /\ ran'[g][k].err
                 /\ data' = data
                 /\ cpc'[g] = AfterTask(k)]_vars
\* A later cycle ran to its end with every call failed (the key points task
\* issued its grounded and its plain call), and the record holds what the
\* cycle before it committed.
C31_Witness ==
    \E g \in DOMAIN ran :
        /\ Finished(g)
        /\ Len(ran[g]) = 5
        /\ \A k \in 1..5 : ran[g][k].err
        /\ Issued(ran[g][2], "Call") = 1
        /\ Issued(ran[g][2], "CallWithGrounding") = 1
        /\ Issued(ran[g][3], "Call") = 1
        /\ data.Summary = << "s", "1" >>
        /\ data.KeyPoints = << << "k", "1" >> >>
        /\ data.ActionItems = << "a1" >>
        /\ data.Topics = << "t1" >>

ReadsLast(g, k, w) ==
    LET n == Len(transcriptSnapshot[g])
        m == IF w < n THEN w ELSE n IN
    /\ Len(ran[g][k].read) = m
    /\ \A i \in 1..m : ran[g][k].read[i] = transcriptSnapshot[g][n - m + i]

\* C33: in a cycle whose snapshot has n entries, the summary and the topics
\* task read the last min(50, n) entries of the snapshot, the key points task
\* the last min(30, n), the action items task the last min(40, n) and the
\* sentiment task the last min(20, n), each in the order of the transcript.
C33_WindowsOfSnapshot ==
    \A g \in DOMAIN ran :
        /\ Len(ran[g]) >= 1 => ran[g][1].task = "generateSummary" /\ ReadsLast(g, 1, 50)
        /\ Len(ran[g]) >= 2 => ran[g][2].task = "extractKeyPoints" /\ ReadsLast(g, 2, 30)
        /\ Len(ran[g]) >= 3 => ran[g][3].task = "identifyActionItems" /\ ReadsLast(g, 3, 40)
        /\ Len(ran[g]) >= 4 => ran[g][4].task = "extractTopics" /\ ReadsLast(g, 4, 50)
        /\ Len(ran[g]) >= 5 =>
              ran[g][5].task = "analyzeSentimentAndKeywords" /\ ReadsLast(g, 5, 20)
\* A cycle over a snapshot of 45 entries has run its five tasks: summary and
\* topics read all 45, the others their last 30, 40 and 20, which start at
\* the entries numbered 16, 6 and 26.
C33_Witness ==
    \E g \in DOMAIN ran :
        /\ Len(transcriptSnapshot[g]) = 45
        /\ Len(ran[g]) = 5
        /\ Len(ran[g][1].read) = 45 /\ ran[g][1].read[1].Text = << "1" >>
        /\ Len(ran[g][2].read) = 30 /\ ran[g][2].read[1].Text = << "1", "6" >>
        /\ Len(ran[g][3].read) = 40 /\ ran[g][3].read[1].Text = << "6" >>
        /\ Len(ran[g][4].read) = 45 /\ ran[g][4].read[45].Text = << "4", "5" >>
        /\ Len(ran[g][5].read) = 20 /\ ran[g][5].read[1].Text = << "2", "6" >>

\* Lines 1122-1125: the key points joined with bullets.
BulletJoined(keyPoints) ==
    IF Join(keyPoints, << NEWLINE, BULLET, SPACE >>) = << >> THEN << >>
    ELSE << BULLET, SPACE >> \o Join(keyPoints, << NEWLINE, BULLET, SPACE >>)

\* C34: whenever grounded_key_points is present, its text is the
\* bullet-joined rendering of the record's key_points, also after a cycle
\* whose grounded call failed and whose plain call committed.
C34_GroundedDescribesKeyPoints ==
    ~IsNil(data.GroundedKeyPoints) =>
        Deref(data.GroundedKeyPoints).Text = BulletJoined(data.KeyPoints)

\* The step starts a cycle: it is the end of a call of ProcessUtterance that
\* appended an entry and whose trigger condition held, and the goroutine of
\* the cycle is the one new goroutine.
StartedByAppend ==
    \E i \in Ingesters :
        /\ ipc[i] = "trigger"
        /\ ipc'[i] = "idle"
        /\ ireturn'[i] = "appended"
        /\ TriggerCondition(lastAnalysis, Len(data.Transcript))
        /\ DOMAIN cpc' = DOMAIN cpc \cup { Len(data.Transcript) }
        /\ cpc'[Len(data.Transcript)] = "start"
\* The snapshot of a cycle that has taken it stays as it is.
SnapshotsKept ==
    \A g \in DOMAIN cpc :
        cpc[g] \notin { "start", "snapshot" } =>
            g \in DOMAIN cpc' /\ transcriptSnapshot'[g] = transcriptSnapshot[g]

\* C35: a cycle starts only as the last step of a call of ProcessUtterance
\* that appended an entry and whose trigger condition held; the cycles
\* started are never more than the appends; no other step, the passing of
\* time included, starts a cycle, and a snapshot once taken never grows, so
\* that entries appended after the last cycle's snapshot are read by no task.
C35_CyclesOnlyFromAppends ==
    /\ [](Cardinality(DOMAIN cpc) <= Len(lockOrder))
    /\ [][(DOMAIN cpc' # DOMAIN cpc => StartedByAppend) /\ SnapshotsKept]_vars
\* A cycle has run, an entry was appended after its snapshot without
\* starting a cycle, and more than the interval has passed since: nothing
\* runs or waits, and the entry is in no snapshot.
C35_Witness ==
    /\ DOMAIN cpc # {}
    /\ \A g \in DOMAIN cpc :
           Finished(g) /\ Len(transcriptSnapshot[g]) < Len(data.Transcript)
    /\ \A i \in Ingesters : ipc[i] = "idle"
    /\ Since(lastAnalysis) > AnalysisInterval
    /\ Len(lockOrder) = MaxTranscript
\* The statement of the spec: an entry appended after the trigger that
\* started the last cycle is in no snapshot (the goroutine g is the one
\* started when the transcript had g entries).
C35_AfterTriggerUnanalysed ==
    \A g \in DOMAIN cpc : Len(transcriptSnapshot[g]) <= g

\* C36: a.lastAnalysis of a new agent is the zero time and stays so until
\* the first cycle records its start; until then every call of
\* ProcessUtterance that appended an entry starts a cycle when it returns,
\* whatever the length of the transcript, so that the cycles started are as
\* many as the appends that returned.
C36_FreshAgentAlwaysTriggers ==
    /\ []((\A g \in DOMAIN cpc : cpc[g] = "start") => lastAnalysis = ZeroTime)
    /\ []((lastAnalysis = ZeroTime /\ \A i \in Ingesters : ipc[i] = "idle") =>
             Cardinality(DOMAIN cpc) = Len(lockOrder))
    /\ [][\A i \in Ingesters :
             (lastAnalysis = ZeroTime /\ ipc[i] = "trigger" /\ ipc'[i] = "idle") =>
                 /\ spawned'[i]
                 /\ Len(data.Transcript) \notin DOMAIN cpc
                 /\ Len(data.Transcript) \in DOMAIN cpc'
                 /\ cpc'[Len(data.Transcript)] = "start"]_vars
\* Two appends have returned before any cycle recorded its start: two cycles
\* wait, one started at a transcript of one entry and one at two entries.
C36_Witness ==
    /\ lastAnalysis = ZeroTime
    /\ Len(data.Transcript) = 2
    /\ DOMAIN cpc = { 1, 2 }
    /\ \A g \in DOMAIN cpc : cpc[g] = "start"
    /\ \A i \in Ingesters : ipc[i] = "idle" /\ spawned[i]

RECURSIVE StableDescending(_)
\* The supports by descending end index, those with the same end index in
\* the order they have in the list.
StableDescending(supports) ==
    IF supports = << >> THEN << >>
    ELSE LET top == CHOOSE e \in { supports[k].EndIndex : k \in 1..Len(supports) } :
                        \A k \in 1..Len(supports) : supports[k].EndIndex <= e IN
         SelectSeq(supports, LAMBDA u : u.EndIndex = top)
             \o StableDescending(SelectSeq(supports, LAMBDA u : u.EndIndex # top))
\* j and k are applied supports with the same end index, k the next such
\* after j in the list.
NextWithSameEnd(metadata, j, k) ==
    /\ j \in Applied(metadata) /\ k \in Applied(metadata) /\ j < k
    /\ metadata.GroundingSupports[j].EndIndex = metadata.GroundingSupports[k].EndIndex
    /\ ~\E i \in Applied(metadata) :
           /\ j < i /\ i < k
           /\ metadata.GroundingSupports[i].EndIndex = metadata.GroundingSupports[j].EndIndex

\* C37: addCitations orders the supports by descending end index and keeps
\* the order of the list among supports with the same end index; of two
\* applied supports with the same end index the marker of the later one
\* stands after that many characters of the text, with the marker of the
\* earlier one right behind it.
C37_StableDescendingSort ==
    \A g \in DOMAIN ran :
        Len(ran[g]) >= 1 =>
            LET metadata == RepliedMetadata(g) IN
            /\ BubbleOuter(metadata.GroundingSupports, 0) =
                   StableDescending(metadata.GroundingSupports)
            /\ ~IsNil(data.GroundedSummary) =>
                   \A j, k \in 1..Len(metadata.GroundingSupports) :
                       NextWithSameEnd(metadata, j, k) =>
                           LET both == MarkerOf(metadata.GroundingSupports[k],
                                                metadata.GroundingChunks)
                                         \o MarkerOf(metadata.GroundingSupports[j],
                                                     metadata.GroundingChunks) IN
                           \E p \in MarkerStarts(Cited) :
                               /\ p + Len(both) - 1 <= Len(Cited)
                               /\ SubSeq(Cited, p, p + Len(both) - 1) = both
                               /\ Len(WithoutMarkers(SubSeq(Cited, 1, p - 1))) =
                                      metadata.GroundingSupports[j].EndIndex
\* Two supports end at 10; the marker of the second stands in front of the
\* marker of the first.
C37_Witness ==
    \E g \in DOMAIN ran :
        /\ Len(ran[g]) >= 1
        /\ RepliedMetadata(g).GroundingSupports =
              << [ EndIndex |-> 10, GroundingChunkIndices |-> << 0 >> ],
                 [ EndIndex |-> 10, GroundingChunkIndices |-> << 1 >> ] >>
        /\ ~IsNil(data.GroundedSummary)
        /\ Cited = SubSeq(Letters, 1, 10) \o << SPACE, "[", "2", "]", "(", "u2", ")" >>
                      \o << SPACE, "[", "1", "]", "(", "u1", ")" >> \o SubSeq(Letters, 11, 20)

\* The tokens of a text: the places where a run of characters that are no
\* white space ends.
Tokens(text) ==
    Cardinality({ k \in 1..Len(text) :
                    ~IsSpace(text[k]) /\ (k = Len(text) \/ IsSpace(text[k + 1])) })
RECURSIVE TokensOf(_)
\* The tokens of all entries of a transcript.
TokensOf(transcript) ==
    IF transcript = << >> THEN 0
    ELSE Tokens(transcript[1].Text) + TokensOf(Tail(transcript))
\* The step is one of a cycle.
CycleStep == cpc' # cpc /\ DOMAIN cpc' = DOMAIN cpc

\* C38: the word count of a record that started empty is the number of
\* white-space delimited tokens of the texts of all its entries; an append
\* adds one entry and the tokens of its text, and no step of a cycle changes
\* the word count, the participants or the transcript.
C38_WordCountIsTokens ==
    /\ [](data.WordCount = TokensOf(data.Transcript))
    /\ [][\A i \in Ingesters :
             (ipc[i] = "idle" /\ ipc'[i] = "marshal") =>
                 /\ Len(data'.Transcript) = Len(data.Transcript) + 1
                 /\ data'.WordCount =
                        data.WordCount + Tokens(Last(data'.Transcript).Text)]_vars
    /\ [][CycleStep =>
             /\ data'.WordCount = data.WordCount
             /\ data'.Participants = data.Participants
             /\ data'.Transcript = data.Transcript]_vars
\* Two entries of two and three words and two speakers are in the record,
\* and a cycle over both has committed its results.
C38_Witness ==
    /\ Len(data.Transcript) = 2
    /\ data.Transcript[1].Text = << SPACE, SPACE, "a", SPACE, SPACE, "b", SPACE >>
    /\ data.Transcript[2].Text = << "a", SPACE, "b", NEWLINE, "c" >>
    /\ data.WordCount = 5
    /\ data.Participants = << "bob", "ann" >>
    /\ \E g \in DOMAIN cpc :
           Finished(g) /\ Len(transcriptSnapshot[g]) = 2 /\ data.Keywords = << "w1" >>

\* The k-th task of g has just handled a reply that holds the fenced
\* document {}.
EmptyDocument(g, k) ==
    /\ TaskStep(g, k)
    /\ ~Deref(Last(AnalysisCalls(ran'[g][k])).reply).err
    /\ Deref(Last(AnalysisCalls(ran'[g][k])).reply).text = Fenced("{}")

\* C39: a task whose reply holds a fenced document that decodes but lacks
\* the task's key commits the empty value and reports no error: the summary
\* (and the text of the grounded summary), the action items, the sentiment and
\* the keywords become empty, whatever an earlier cycle had stored, and the
\* fields of the other tasks stay.
C39_MissingKeyCommitsEmpty ==
    [][\A g \in DOMAIN cpc :
          /\ EmptyDocument(g, 1) =>
                /\ ~ran'[g][1].err
                /\ data'.Summary = << >>
                /\ ~IsNil(data'.GroundedSummary)
                /\ Deref(data'.GroundedSummary).Text = << >>
                /\ data'.ActionItems = data.ActionItems
                /\ data'.Sentiment = data.Sentiment
          /\ EmptyDocument(g, 3) =>
                /\ ~ran'[g][3].err
                /\ data'.ActionItems = << >>
                /\ data'.Summary = data.Summary
                /\ data'.Sentiment = data.Sentiment
          /\ EmptyDocument(g, 5) =>
                /\ ~ran'[g][5].err
                /\ data'.Sentiment = << >>
                /\ data'.Keywords = << >>
                /\ data'.Summary = data.Summary
                /\ data'.ActionItems = data.ActionItems]_vars
\* The first cycle committed s1, a1 and the sentiment of its replies; the
\* second cycle's three replies held {}, and the three results are gone while
\* key points and topics are there.
C39_Witness ==
    \E g, h \in DOMAIN ran :
        /\ g < h /\ Finished(h)
        /\ Len(ran[g]) = 5 /\ Len(ran[h]) = 5
        /\ Returned(Last(AnalysisCalls(ran[g][1])), "{summary:s1}")
        /\ Returned(Last(AnalysisCalls(ran[g][3])), "{action_items:a1}")
        /\ Returned(Last(AnalysisCalls(ran[g][5])), "{sentiment:pos}")
        /\ \A k \in { 1, 3, 5 } : Returned(Last(AnalysisCalls(ran[h][k])), "{}")
        /\ data.Summary = << >> /\ data.ActionItems = << >>
        /\ data.Sentiment = << >> /\ data.Keywords = << >>
        /\ data.KeyPoints = << << "k", "1" >> >> /\ data.Topics = << "t1" >>

\* C40: the text of the entry a call of ProcessUtterance appends is the
\* non-empty texts of the batch's fragments in their order, one space between
\* each two and none in front, also when the first fragments have no text.
C40_TextsJoinedBySpaces ==
    \A i \in Ingesters :
        ipc[i] = "marshal" => Last(data.Transcript).Text = expected[i].text

\* C5: in every cycle the tasks run in the order Summary, KeyPoints,
\* ActionItems, Topics, Sentiment+Keywords, and a cycle that has left its
\* tasks, however they ended, has run all five.
C5_AllTasksInOrder ==
    \A g \in DOMAIN ran :
        /\ \A k \in 1..Len(ran[g]) : k <= 5 /\ ran[g][k].task = TaskOrder[k]
        /\ (cpc[g] \notin TaskNames \cup { "start", "snapshot" }
              /\ transcriptSnapshot[g] # << >>) => Len(ran[g]) = 5

\* C6: whatever the provider, its replies and the custom instructions, no
\* cycle panics.
C6_NoCrash == ~crashed /\ \A g \in DOMAIN cpc : cpc[g] # "panic"

\* C7: no step writes the record while a reader holds the read lock, or while
\* a writer other than the one taking the step holds the write lock (the holder
\* of the write lock writes as it takes or as it releases the lock).
C7_WritesExclusive ==
    [][data' # data =>
          /\ dataMutex.readers = {}
          /\ ~(~IsNil(dataMutex.writer) /\ dataMutex'.writer = dataMutex.writer)]_vars

\* C8: whenever no call and no cycle is under way, no save has failed and the
\* record has been mutated, the file holds the record.
C8_FileIsRecord ==
    (Quiescent /\ ~saveFailed /\ ~crashed /\ Len(data.Transcript) > 0) => file = Some(data)

====
